---- MODULE Spec2Model ----
(***************************************************************************)
(* Mental-health companion backend: the REST API (FastAPI routers), the    *)
(* auth service, the Cosmos data-access service and the safety plugin,     *)
(* modelled as state machines over the document store.                     *)
(*                                                                         *)
(* Specifications:                                                         *)
(*   SpecValidate  UserCreate validation (shared/models/user.py)           *)
(*   SpecAuth      register / token / get_current_user                     *)
(*   Spec          journal and mood data access behind the routers         *)
(*   SpecRisk      SafetyPlugin.assess_risk                                *)
(*   SpecJournal   the journal router, entries of both users               *)
(*   SpecPage      the journal listing under a moving clock                *)
(*   SpecRetry     the retry layers around one LLM-backed operation        *)
(*   SpecStore     the retried store operations of CosmosService           *)
(*   SpecError     the correlation-id middleware and the error handlers    *)
(*   SpecMood      the mood log                                            *)
(***************************************************************************)
EXTENDS Integers, Sequences, FiniteSets, TLC

VARIABLES
    users,      \* the "users" container: set of user documents
    journal,    \* the "journal_entries" container: set of documents
    moods,      \* the "mood_logs" container: set of documents
    nextId,     \* uuid.uuid4(): the next fresh document id
    now,        \* datetime.utcnow(), in ticks
    reqs,       \* per client connection: the request in flight (its await point)
    resp,       \* the HTTP response / service result being delivered, or None
    form,       \* SpecValidate: the UserCreate input under validation
    verdict,    \* SpecValidate: the outcome of validation
    call,       \* SpecRisk: the assess_risk call (input, agent outcome, log outcome)
    assessment, \* SpecRisk: the dict assess_risk returned
    op          \* SpecRetry, SpecStore, SpecError: the operation in progress

vars == <<users, journal, moods, nextId, now, reqs, resp, form, verdict, call, assessment, op>>

pureVars == <<form, verdict, call, assessment, op>>
storeVars == <<users, journal, moods, nextId>>

(***************************************************************************)
(* Optional values: Python None is the empty tuple, a present scalar is a  *)
(* one-element tuple.                                                      *)
(***************************************************************************)
None == <<>>
Some(x) == <<x>>

(***************************************************************************)
(* Bounds of the model.                                                    *)
(***************************************************************************)
MaxPwLen == 9      \* longest password enumerated by SpecValidate
MaxUsers == 2      \* user documents the store may hold
MaxTime == 1       \* last clock tick

(***************************************************************************)
(* Characters and strings.  A string is a sequence of one-character        *)
(* strings.                                                                *)
(***************************************************************************)
UpperLetters ==
    <<"A","B","C","D","E","F","G","H","I","J","K","L","M",
      "N","O","P","Q","R","S","T","U","V","W","X","Y","Z">>
LowerLetters ==
    <<"a","b","c","d","e","f","g","h","i","j","k","l","m",
      "n","o","p","q","r","s","t","u","v","w","x","y","z">>
Digits == {"0","1","2","3","4","5","6","7","8","9"}

Range(s) == {s[i] : i \in DOMAIN s}

\* str.isdigit / str.isupper on one character
isdigit(c) == c \in Digits
isupper(c) == c \in Range(UpperLetters)

(***************************************************************************)
(* UserCreate (shared/models/user.py).  password_confirm is None when the  *)
(* field is not supplied; its validator then does not run.                 *)
(***************************************************************************)
PasswordTooShortBug(v) ==
    IF Len(v) < 7 THEN "Password must be at least 8 characters"
    ELSE IF ~ \E i \in DOMAIN v : isdigit(v[i])
        THEN "Password must contain at least one digit"
    ELSE IF ~ \E i \in DOMAIN v : isupper(v[i])
        THEN "Password must contain at least one uppercase letter"
    ELSE "ok"

\* validator('password'): the error raised, or "ok"
password_strength(v) ==
    IF Len(v) < 8 THEN "Password must be at least 8 characters"
    ELSE IF ~ \E i \in DOMAIN v : isdigit(v[i])
        THEN "Password must contain at least one digit"
    ELSE IF ~ \E i \in DOMAIN v : isupper(v[i])
        THEN "Password must contain at least one uppercase letter"
    ELSE "ok"

\* validator('password_confirm'): values holds 'password' only when the
\* password validator passed
passwords_match(v, password) ==
    IF password_strength(password) = "ok" /\ v # Some(password)
    THEN "Passwords do not match"
    ELSE "ok"

\* UserCreate(**data): the set of validation errors raised (empty: accepted)
UserCreate(data) ==
    {e \in {password_strength(data.password)} : e # "ok"}
    \cup (IF data.password_confirm = None THEN {}
          ELSE {e \in {passwords_match(data.password_confirm, data.password)} : e # "ok"})

(***************************************************************************)
(* SpecValidate: every form over a three-class alphabet.                   *)
(***************************************************************************)
Password123 == <<"P","a","s","s","w","o","r","d","1","2","3">>

NoVerdict == [done |-> FALSE, errors |-> {}]

Validate ==
    /\ ~ verdict.done
    /\ verdict' = [done |-> TRUE, errors |-> UserCreate(form)]
    /\ UNCHANGED <<storeVars, now, reqs, resp, form, call, assessment, op>>

InitValidate ==
    \* the password_confirm values tried with password p: not supplied, equal,
    \* and a different string
    LET Confirms(p) == {None, Some(p), Some(Password123)}
    IN
    LET PwChars == {"a", "Z", "7"}
    IN
    /\ \E n \in 0..MaxPwLen : \E p \in [1..n -> PwChars] \cup {Password123} :
        \E c \in Confirms(p) : form = [password |-> p, password_confirm |-> c]
    /\ verdict = NoVerdict
    /\ users = {} /\ journal = {} /\ moods = {} /\ nextId = 1 /\ now = 0
    /\ reqs = <<>> /\ resp = None /\ call = None /\ assessment = None /\ op = None

NextValidate == Validate

SpecValidate == InitValidate /\ [][NextValidate]_vars

\* C8: UserCreate accepts exactly when the password has at least 8
\* characters, a digit and an uppercase letter, and password_confirm, when
\* supplied, equals the password; every rejection names the violated rule.
C8_Accepted ==
    /\ Len(form.password) >= 8
    /\ \E i \in DOMAIN form.password : form.password[i] \in Digits
    /\ \E i \in DOMAIN form.password : form.password[i] \in Range(UpperLetters)
    /\ form.password_confirm # None => form.password_confirm = Some(form.password)

C8_ViolatedRules ==
    (IF Len(form.password) < 8
        THEN {"Password must be at least 8 characters"} ELSE {})
    \cup (IF ~ \E i \in DOMAIN form.password : form.password[i] \in Digits
        THEN {"Password must contain at least one digit"} ELSE {})
    \cup (IF ~ \E i \in DOMAIN form.password : form.password[i] \in Range(UpperLetters)
        THEN {"Password must contain at least one uppercase letter"} ELSE {})
    \cup (IF form.password_confirm \notin {None, Some(form.password)}
        THEN {"Passwords do not match"} ELSE {})

C8_PasswordRules ==
    verdict.done =>
        /\ (verdict.errors = {}) <=> C8_Accepted
        /\ verdict.errors \subseteq C8_ViolatedRules

C8_Witness ==
    /\ verdict.done
    /\ verdict.errors = {}
    /\ Len(form.password) = 8
    /\ form.password_confirm = Some(form.password)


(***************************************************************************)
(* Auth service (backend/shared/auth.py) over the users container          *)
(* (backend/shared/cosmos.py).                                             *)
(***************************************************************************)
Emails == {"a@x.org", "b@x.org"}
Clients == {"c1", "c2"}
SECRET_KEY == "JWT_SECRET_KEY"
ACCESS_TOKEN_EXPIRE_MINUTES == 30

Secret7Z == <<"s","e","c","r","e","t","7","Z">>
Hunter2X == <<"h","u","n","t","e","r","2","X">>
Passwords == {Secret7Z, Hunter2X}

Idle == [kind |-> "idle"]

\* pwd_context.hash / pwd_context.verify (bcrypt): a hash verifies exactly
\* the password it was made from
get_password_hash(password) == [bcrypt |-> password]
verify_password(plain_password, hashed_password) ==
    hashed_password = get_password_hash(plain_password)

\* SELECT * FROM c WHERE c.email = @email ORDER BY c.created_at DESC, then
\* items[0]; any exception is swallowed into None.  The set of possible
\* results (documents that tie on created_at come in either order).
get_user_by_email(store, email, ok) ==
    LET items == {u \in store : u.email = email} IN
    IF ~ ok \/ items = {} THEN {None}
    ELSE {u \in items : \A v \in items : v.created_at <= u.created_at}

\* CosmosService.create_user: the document written
create_user(id, email, hashed_password, t) ==
    [id |-> id, email |-> email, hashed_password |-> hashed_password,
     created_at |-> t, subscription_tier |-> "free"]

authenticate_user(store, username, password, ok) ==
    {IF user = None THEN None
     ELSE IF ~ verify_password(password, user.hashed_password) THEN None
     ELSE user : user \in get_user_by_email(store, username, ok)}

\* create_access_token(data, expires_delta) at time t
create_access_token(data, expires_delta, t) ==
    [sub |-> data.sub, exp |-> t + expires_delta, key |-> SECRET_KEY]

\* jose.jwt.decode: signature, then exp (expired when exp < now)
jwt_decode_ok(token, t) == token.key = SECRET_KEY /\ token.exp >= t

Unauthorized == [status |-> 401, detail |-> "Could not validate credentials"]

GetCurrentUserIgnoresExp(store, token, t, ok) ==
    IF token.key # SECRET_KEY THEN {Unauthorized}
    ELSE IF token.sub = None THEN {Unauthorized}
    ELSE {IF user = None THEN Unauthorized ELSE user :
            user \in get_user_by_email(store, token.sub[1], ok)}

\* get_current_user(token): the possible results, a user document or the
\* 401 credentials_exception
get_current_user(store, token, t, ok) ==
    IF ~ jwt_decode_ok(token, t) THEN {Unauthorized}
    ELSE IF token.sub = None THEN {Unauthorized}
    ELSE {IF user = None THEN Unauthorized ELSE user :
            user \in get_user_by_email(store, token.sub[1], ok)}

Tokens ==
    \* the tokens a client may present: whatever create_access_token can mint
    \* with the server key, and the same claims signed with another key
    LET TokenExps == (0..MaxTime) \cup {t + ACCESS_TOKEN_EXPIRE_MINUTES : t \in 0..MaxTime}
    IN
    [sub : {None} \cup {Some(e) : e \in Emails}, exp : TokenExps,
     key : {SECRET_KEY, "other-key"}]

\* an HTTP response with the request it answers: path is the route and its
\* path parameters, cur the id of the user get_current_user returned (None:
\* the request was not authenticated), handler tells whether the endpoint
\* function was entered
Response(route, status, detail, body, cur, handler) ==
    [route |-> route, path |-> <<route>>, status |-> status, detail |-> detail,
     body |-> body, cur |-> cur, handler |-> handler]

\* the response to a request for /journal/{entry_id}
OnEntry(r, entry_id) == [r EXCEPT !.path = <<r.route, entry_id>>]

PendingRegisters == Cardinality({c \in Clients : reqs[c].kind = "register"})

\* POST /register, up to the await of create_user: validation, then the
\* lookup of the email
register_user_check(c, data, ok) ==
    /\ resp = None
    /\ reqs[c] = Idle
    /\ Cardinality(users) + PendingRegisters < MaxUsers
    /\ IF UserCreate(data) # {}
       THEN /\ resp' = Response("POST /register", 422, "Validation error", None, None, FALSE)
            /\ UNCHANGED reqs
       ELSE \E existing_user \in get_user_by_email(users, data.email, ok) :
            IF existing_user # None
            THEN /\ resp' = Response("POST /register", 400,
                                     "Email already registered", None, None, TRUE)
                 /\ UNCHANGED reqs
            ELSE /\ reqs' = [reqs EXCEPT ![c] =
                        [kind |-> "register", email |-> data.email,
                         password |-> data.password]]
                 /\ UNCHANGED resp
    /\ UNCHANGED <<users, journal, moods, nextId, now, pureVars>>

\* POST /register, from create_user on: the user is stored under a fresh id
register_user_create(c) ==
    /\ resp = None
    /\ reqs[c].kind = "register"
    /\ LET user == create_user(Cardinality(users) + 1, reqs[c].email,
                               get_password_hash(reqs[c].password), now)
       IN /\ users' = users \cup {user}
          /\ resp' = Response("POST /register", 200, "", [id |-> user.id], None, TRUE)
    /\ reqs' = [reqs EXCEPT ![c] = Idle]
    /\ UNCHANGED <<journal, moods, nextId, now, pureVars>>

\* POST /token
login_for_access_token(c, username, password, ok) ==
    /\ resp = None
    /\ reqs[c] = Idle
    /\ \E user \in authenticate_user(users, username, password, ok) :
        IF user = None
        THEN resp' = Response("POST /token", 401,
                              "Incorrect username or password", None, None, TRUE)
        ELSE resp' = Response("POST /token", 200, "",
                [access_token |-> create_access_token([sub |-> Some(user.email)],
                                    ACCESS_TOKEN_EXPIRE_MINUTES, now),
                 token_type |-> "bearer"], None, TRUE)
    /\ UNCHANGED <<storeVars, now, reqs, pureVars>>

\* GET /login: the profile of the token's user
get_current_user_profile(c, token, ok) ==
    /\ resp = None
    /\ reqs[c] = Idle
    /\ \E current_user \in get_current_user(users, token, now, ok) :
        IF current_user = Unauthorized
        THEN resp' = Response("GET /login", 401, Unauthorized.detail, None, None, FALSE)
        ELSE resp' = Response("GET /login", 200, "", [id |-> current_user.id],
                              Some(current_user.id), TRUE)
    /\ UNCHANGED <<storeVars, now, reqs, pureVars>>

\* the response leaves: the next one can be produced
Deliver ==
    /\ resp # None
    /\ resp' = None
    /\ UNCHANGED <<storeVars, now, reqs, pureVars>>

\* the clock advances
Tick ==
    /\ now < MaxTime
    /\ now' = now + 1
    /\ UNCHANGED <<storeVars, reqs, resp, pureVars>>

InitAuth ==
    /\ users = {} /\ journal = {} /\ moods = {} /\ nextId = 1 /\ now = 0
    /\ reqs = [c \in Clients |-> Idle]
    /\ resp = None
    /\ form = None /\ verdict = NoVerdict /\ call = None /\ assessment = None /\ op = None

NextAuth ==
    LET RegisterForms ==
            {[email |-> e, password |-> p, password_confirm |-> None] :
                e \in Emails, p \in Passwords}
            \cup {[email |-> "a@x.org", password |-> <<"w","e","a","k">>,
                   password_confirm |-> None]}
    IN
    \/ \E c \in Clients, data \in RegisterForms, ok \in BOOLEAN :
            register_user_check(c, data, ok)
    \/ \E c \in Clients : register_user_create(c)
    \/ \E c \in Clients, username \in Emails, password \in Passwords, ok \in BOOLEAN :
            login_for_access_token(c, username, password, ok)
    \/ \E c \in Clients, token \in Tokens, ok \in BOOLEAN :
            get_current_user_profile(c, token, ok)
    \/ Tick
    \/ Deliver

SpecAuth == InitAuth /\ [][NextAuth]_vars

(***************************************************************************)
(* The API's routes: main.py include_router (router-level dependencies)    *)
(* and the routers' decorators (Depends(get_current_user) parameters).     *)
(***************************************************************************)
Route(name, router, depends, handler) ==
    [name |-> name, router |-> router, depends |-> depends, handler |-> handler]

Routes ==
    { Route("GET /login", "auth", TRUE, "profile"),
      Route("POST /register", "auth", FALSE, "register"),
      Route("PUT /update", "auth", TRUE, "missing"),
      Route("POST /token", "auth", FALSE, "token"),
      Route("GET /journal/", "journal", TRUE, "journal"),
      Route("POST /journal/", "journal", TRUE, "journal"),
      Route("GET /journal/{id}", "journal", TRUE, "journal"),
      Route("PUT /journal/{id}", "journal", TRUE, "journal"),
      Route("DELETE /journal/{id}", "journal", TRUE, "journal"),
      Route("POST /journal/prompt", "journal", TRUE, "llm"),
      Route("POST /mood/analyze", "mood", TRUE, "llm"),
      Route("POST /mood/log", "mood", TRUE, "missing"),
      Route("GET /mood/patterns", "mood", TRUE, "missing"),
      Route("GET /mindfulness/exercise", "mindfulness", TRUE, "missing"),
      Route("POST /mindfulness/track", "mindfulness", TRUE, "missing"),
      Route("GET /mindfulness/statistics", "mindfulness", TRUE, "missing"),
      Route("GET /insights/weekly", "insights", TRUE, "missing"),
      Route("GET /insights/patterns", "insights", TRUE, "missing"),
      Route("GET /api/health", "app", FALSE, "health") }

RouteNamed(name) == CHOOSE r \in Routes : r.name = name

\* include_router(..., dependencies=authenticated_dependency)
RoutersWithDependency == {"journal", "mood", "mindfulness", "insights"}

RequiresAuthRouterOnly(route) == route.router \in RoutersWithDependency

\* a route runs get_current_user when its router or its endpoint depends on it
RequiresAuth(route) == route.router \in RoutersWithDependency \/ route.depends

\* OAuth2PasswordBearer: no Authorization header
NotAuthenticated == [status |-> 401, detail |-> "Not authenticated"]

\* the dependency's possible outcomes for a request carrying token (None: no
\* header): a user document, or a 401
AuthOutcomes(token, ok) ==
    IF token = None THEN {NotAuthenticated}
    ELSE get_current_user(users, token, now, ok)

\* http_exception_handler: the JSON body of an HTTPException
http_exception_handler(status_code, detail, path) ==
    [message |-> detail,
     auth_required |-> status_code = 401,
     resource |-> IF status_code = 404 THEN Some(path) ELSE None]

\* global_exception_handler / add_correlation_id: an unhandled exception
InternalError(route, cur) ==
    Response(route, 500, "An unexpected error occurred.", None, cur, TRUE)

Denied(route, who, path) ==
    [Response(route, 401, who.detail,
              http_exception_handler(401, who.detail, path), None, FALSE)
        EXCEPT !.path = path]

CurOf(who) == IF who \in users THEN Some(who.id) ELSE None

(***************************************************************************)
(* Journal documents (backend/shared/cosmos.py, shared/models/journal.py). *)
(* A document is a record over DocKeys; a key the document lacks is None.  *)
(***************************************************************************)
MaxDocs == 2       \* journal entries and mood logs ever created
DefaultLimit == 10

List(s) == [list |-> s]

DocKeys ==
    {"id", "user_id", "content", "mood_indicators", "mood_score", "created_at",
     "updated_at", "ai_insights", "sentiment_score", "type", "update_data"}
ModelKeys == DocKeys \ {"type", "update_data"}

Doc(d) == [k \in DocKeys |-> IF k \in DOMAIN d THEN d[k] ELSE None]

\* JournalEntry(**item): the model's fields, extra keys ignored
JournalEntry(item) == [k \in ModelKeys |-> item[k]]

\* JournalEntryCreate validation: content min_length 1, mood_score 1..10
JournalEntryCreate(entry) ==
    (IF entry.content = "" THEN {"content"} ELSE {})
    \cup (IF entry.mood_score # None /\ entry.mood_score[1] \notin 1..10
          THEN {"mood_score"} ELSE {})

CreateJournalEntryDropsIndicators(user_id, content, mood_indicators, mood_score, ai_insights, id, t) ==
    Doc([id |-> id, user_id |-> user_id, content |-> content,
         mood_indicators |-> List(<<>>), mood_score |-> mood_score,
         created_at |-> t, ai_insights |-> ai_insights,
         type |-> Some("journal_entry")])

\* CosmosService.create_journal_entry: the document written
create_journal_entry(user_id, content, mood_indicators, mood_score, ai_insights, id, t) ==
    Doc([id |-> id, user_id |-> user_id, content |-> content,
         mood_indicators |-> mood_indicators, mood_score |-> mood_score,
         created_at |-> t, ai_insights |-> ai_insights,
         type |-> Some("journal_entry")])

\* CosmosService.get_journal_entry(entry_id): SELECT * FROM c WHERE c.id = ..,
\* items[0] as a JournalEntry; None when absent or on any exception
get_journal_entry(store, entry_id, ok) ==
    LET items == {d \in store : d.id = entry_id} IN
    IF ~ ok \/ items = {} THEN None
    ELSE JournalEntry(CHOOSE d \in items : TRUE)

\* the orders in which a query may return docs sorted by key descending
SortedDesc(docs, key) ==
    {s \in [1..Cardinality(docs) -> docs] :
        /\ \A i, j \in DOMAIN s : i # j => s[i] # s[j]
        /\ \A i, j \in DOMAIN s : i < j => s[i][key] >= s[j][key]}

\* OFFSET skip LIMIT limit
Page(s, skip, limit) ==
    [i \in 1..(IF Len(s) - skip < limit
               THEN (IF Len(s) - skip < 0 THEN 0 ELSE Len(s) - skip)
               ELSE limit) |-> s[skip + i]]

GetJournalEntriesAllUsers(store, user_id, skip, limit) ==
    LET items == {d \in store : d.type = Some("journal_entry")} IN
    {[i \in DOMAIN Page(s, skip, limit) |-> JournalEntry(Page(s, skip, limit)[i])] :
        s \in SortedDesc(items, "created_at")}

\* CosmosService.get_journal_entries: the possible result lists
get_journal_entries(store, user_id, skip, limit) ==
    LET items == {d \in store : d.user_id = user_id /\ d.type = Some("journal_entry")} IN
    {[i \in DOMAIN Page(s, skip, limit) |-> JournalEntry(Page(s, skip, limit)[i])] :
        s \in SortedDesc(items, "created_at")}

\* dict.update: right-hand keys win
DictUpdate(d, e) ==
    [k \in DOMAIN d \cup DOMAIN e |-> IF k \in DOMAIN e THEN e[k] ELSE d[k]]

UpdateDictGivesAway(entry, update_fields, t) ==
    DictUpdate(DictUpdate(DictUpdate(entry, update_fields), [updated_at |-> Some(t)]),
               [user_id |-> 3 - entry.user_id])

\* CosmosService.update_journal_entry, lines 303-315: entry.dict(), updated
\* with the keyword arguments, stamped with updated_at
update_dict(entry, update_fields, t) ==
    DictUpdate(DictUpdate(entry, update_fields), [updated_at |-> Some(t)])

NotOwnedIgnoresOwner(entry, user_id) == entry = None

\* "if not entry or entry.user_id != current_user.id"
NotOwned(entry, user_id) == entry = None \/ Some(entry.user_id) # user_id

\* raise HTTPException(status_code=404, detail="Journal entry not found")
JournalNotFound(route, entry_id, cur) ==
    OnEntry(Response(route, 404, "Journal entry not found",
                     http_exception_handler(404, "Journal entry not found",
                                            <<route, entry_id>>),
                     cur, TRUE), entry_id)

ForbiddenInsteadOfNotFound(route, store, entry_id, cur, ok) ==
    LET entry == get_journal_entry(store, entry_id, ok) IN
    IF entry = None THEN JournalNotFound(route, entry_id, cur)
    ELSE IF Some(entry.user_id) # cur
        THEN OnEntry(Response(route, 403, "Not your journal entry",
                              http_exception_handler(403, "Not your journal entry",
                                                     <<route, entry_id>>),
                              cur, TRUE), entry_id)
    ELSE OnEntry(Response(route, 200, "", entry, cur, TRUE), entry_id)

\* the router's lookup and ownership check, shared by GET, PUT and DELETE
\* /journal/{entry_id} (routers/journal.py lines 43-46, 55-57, 71-73): the
\* 404 response, or a 200 carrying the entry found
journal_entry_or_404(route, store, entry_id, cur, ok) ==
    LET entry == get_journal_entry(store, entry_id, ok) IN
    IF NotOwned(entry, cur) THEN JournalNotFound(route, entry_id, cur)
    ELSE OnEntry(Response(route, 200, "", entry, cur, TRUE), entry_id)

(***************************************************************************)
(* Spec: the routers over the journal and mood containers, two registered  *)
(* users.  A request's first step is its arrival, the get_current_user     *)
(* dependency and the endpoint function up to its next await on the store. *)
(* The clock stands still in Spec (SpecAuth advances it): the expired      *)
(* token's exp lies before it.                                             *)
(***************************************************************************)
RegisteredUsers ==
    LET Bob == create_user(2, "b@x.org", get_password_hash(Hunter2X), 0)
    IN
    LET Alice == create_user(1, "a@x.org", get_password_hash(Secret7Z), 0)
    IN
    {Alice, Bob}

EntryIds == 0..MaxDocs     \* 0 is an id no document has

\* the connections on which a PUT or DELETE may be in flight
JournalClients == {"c1"}

\* a request's credentials: its token, and whether the dependency's lookup
\* of the user succeeds
Credentials ==
    \* the Authorization headers tried: none, a good token of each user, an
    \* expired one, one signed with another key, one without sub
    LET RequestTokens ==
            {None}
            \cup {[sub |-> Some(e), exp |-> MaxTime, key |-> SECRET_KEY] : e \in Emails}
            \cup {[sub |-> Some("a@x.org"), exp |-> -1, key |-> SECRET_KEY],
                  [sub |-> Some("a@x.org"), exp |-> MaxTime, key |-> "other-key"],
                  [sub |-> None, exp |-> MaxTime, key |-> SECRET_KEY]}
    IN
    {[token |-> t, ok |-> TRUE] : t \in RequestTokens}
    \cup {[token |-> [sub |-> Some("a@x.org"), exp |-> MaxTime, key |-> SECRET_KEY],
           ok |-> FALSE]}

NewEntries ==
    {[content |-> "c1", mood_indicators |-> List(<<>>), mood_score |-> Some(5)],
     [content |-> "", mood_indicators |-> List(<<>>), mood_score |-> None],
     [content |-> "c1", mood_indicators |-> List(<<>>), mood_score |-> Some(11)]}

\* JournalEntryUpdate.dict(exclude_unset=True)
EntryUpdates == {[content |-> "c2", mood_score |-> Some(7)]}

\* arrival of a request: the route's dependency, then
\* the endpoint function
Serve(name, cred, path, Handler(_)) ==
    /\ resp = None
    /\ \E who \in AuthOutcomes(cred.token, cred.ok) :
        IF RequiresAuth(RouteNamed(name)) /\ who \notin users
        THEN /\ resp' = Denied(name, who, path)
             /\ UNCHANGED <<storeVars, now, reqs, pureVars>>
        ELSE Handler(CurOf(who))

\* GET /journal/
list_journal_entries(cred, skip, limit) ==
    LET name == "GET /journal/"
        Handler(cur) ==
            /\ IF cur = None THEN resp' = InternalError(name, cur)
               ELSE \E entries \in get_journal_entries(journal, cur[1], skip, limit) :
                        resp' = Response(name, 200, "", entries, cur, TRUE)
            /\ UNCHANGED <<storeVars, now, reqs, pureVars>>
    IN Serve(name, cred, <<name>>, Handler)

\* POST /journal/: analyze_journal_entry (the LLM), then create_journal_entry
post_journal_entry(cred, entry, llm) ==
    LET name == "POST /journal/"
        Handler(cur) ==
            /\ nextId <= MaxDocs
            /\ IF JournalEntryCreate(entry) # {}
               THEN /\ resp' = Response(name, 422, "Validation error", None, cur, FALSE)
                    /\ UNCHANGED <<journal, nextId>>
               ELSE IF ~ llm \/ cur = None
               THEN /\ resp' = InternalError(name, cur)
                    /\ UNCHANGED <<journal, nextId>>
               ELSE LET doc == create_journal_entry(cur[1], entry.content,
                                    entry.mood_indicators, entry.mood_score,
                                    [insights |-> "insights"], nextId, now)
                    IN /\ journal' = journal \cup {doc}
                       /\ nextId' = nextId + 1
                       /\ resp' = Response(name, 200, "", JournalEntry(doc), cur, TRUE)
            /\ UNCHANGED <<users, moods, now, reqs, pureVars>>
    IN Serve(name, cred, <<name>>, Handler)

\* GET /journal/{entry_id}
get_journal_entry_route(cred, entry_id, sok) ==
    LET name == "GET /journal/{id}"
        Handler(cur) ==
            /\ resp' = journal_entry_or_404(name, journal, entry_id, cur, sok)
            /\ UNCHANGED <<storeVars, now, reqs, pureVars>>
    IN Serve(name, cred, <<name, entry_id>>, Handler)

\* PUT /journal/{entry_id}, lines 55-57: the router's lookup
put_journal_entry_check(c, cred, entry_id, upd, sok) ==
    LET name == "PUT /journal/{id}"
        Handler(cur) ==
            LET r == journal_entry_or_404(name, journal, entry_id, cur, sok) IN
            /\ reqs[c] = Idle
            /\ IF r.status # 200
               THEN resp' = r /\ UNCHANGED reqs
               ELSE /\ reqs' = [reqs EXCEPT ![c] =
                            [kind |-> "put", stage |-> "read", cur |-> cur,
                             entry_id |-> entry_id, upd |-> upd, body |-> None]]
                    /\ UNCHANGED resp
            /\ UNCHANGED <<storeVars, now, pureVars>>
    IN Serve(name, cred, <<name, entry_id>>, Handler)

\* CosmosService.update_journal_entry(entry_id=, user_id=, update_data=..),
\* lines 298-315: read, ownership, merge.  None comes back to the router,
\* whose response_model then fails.
put_journal_entry_read(c, sok) ==
    /\ resp = None
    /\ reqs[c].kind = "put" /\ reqs[c].stage = "read"
    /\ LET entry == get_journal_entry(journal, reqs[c].entry_id, sok) IN
       IF entry = None \/ Some(entry.user_id) # reqs[c].cur
       THEN /\ resp' = OnEntry(InternalError("PUT /journal/{id}", reqs[c].cur),
                                reqs[c].entry_id)
            /\ reqs' = [reqs EXCEPT ![c] = Idle]
       ELSE /\ reqs' = [reqs EXCEPT ![c].stage = "replace",
                                    ![c].body = update_dict(entry,
                                        [update_data |-> reqs[c].upd], now)]
            /\ UNCHANGED resp
    /\ UNCHANGED <<storeVars, now, pureVars>>

\* lines 318-324: replace_item(item=entry_id, body=update_dict)
put_journal_entry_replace(c) ==
    /\ resp = None
    /\ reqs[c].kind = "put" /\ reqs[c].stage = "replace"
    /\ LET old == {d \in journal : d.id = reqs[c].entry_id}
           new == Doc(reqs[c].body)
       IN IF old = {}
          THEN /\ resp' = OnEntry(InternalError("PUT /journal/{id}", reqs[c].cur),
                                   reqs[c].entry_id)
               /\ UNCHANGED journal
          ELSE /\ journal' = (journal \ old) \cup {new}
               /\ resp' = OnEntry(Response("PUT /journal/{id}", 200, "",
                                            JournalEntry(new), reqs[c].cur, TRUE),
                                   reqs[c].entry_id)
    /\ reqs' = [reqs EXCEPT ![c] = Idle]
    /\ UNCHANGED <<users, moods, nextId, now, pureVars>>

EntryDeleted == [message |-> "Entry deleted successfully"]

\* DELETE /journal/{entry_id}, lines 71-73: the router's lookup
delete_journal_entry_check(c, cred, entry_id, sok) ==
    LET name == "DELETE /journal/{id}"
        Handler(cur) ==
            LET r == journal_entry_or_404(name, journal, entry_id, cur, sok) IN
            /\ reqs[c] = Idle
            /\ IF r.status # 200
               THEN resp' = r /\ UNCHANGED reqs
               ELSE /\ reqs' = [reqs EXCEPT ![c] =
                            [kind |-> "delete", stage |-> "read", cur |-> cur,
                             entry_id |-> entry_id, upd |-> None, body |-> None]]
                    /\ UNCHANGED resp
            /\ UNCHANGED <<storeVars, now, pureVars>>
    IN Serve(name, cred, <<name, entry_id>>, Handler)

\* CosmosService.delete_journal_entry, lines 335-337: read and ownership;
\* the router ignores the False it returns
delete_journal_entry_read(c, sok) ==
    /\ resp = None
    /\ reqs[c].kind = "delete" /\ reqs[c].stage = "read"
    /\ LET entry == get_journal_entry(journal, reqs[c].entry_id, sok) IN
       IF entry = None \/ Some(entry.user_id) # reqs[c].cur
       THEN /\ resp' = OnEntry(Response("DELETE /journal/{id}", 200, "",
                                         EntryDeleted, reqs[c].cur, TRUE),
                                reqs[c].entry_id)
            /\ reqs' = [reqs EXCEPT ![c] = Idle]
       ELSE /\ reqs' = [reqs EXCEPT ![c].stage = "delete"]
            /\ UNCHANGED resp
    /\ UNCHANGED <<storeVars, now, pureVars>>

\* line 339: delete_item(item=entry_id, partition_key=user_id)
delete_journal_entry_item(c) ==
    /\ resp = None
    /\ reqs[c].kind = "delete" /\ reqs[c].stage = "delete"
    /\ LET old == {d \in journal : /\ d.id = reqs[c].entry_id
                                   /\ Some(d.user_id) = reqs[c].cur}
       IN IF old = {}
          THEN /\ resp' = OnEntry(InternalError("DELETE /journal/{id}", reqs[c].cur),
                                   reqs[c].entry_id)
               /\ UNCHANGED journal
          ELSE /\ journal' = journal \ old
               /\ resp' = OnEntry(Response("DELETE /journal/{id}", 200, "",
                                            EntryDeleted, reqs[c].cur, TRUE),
                                   reqs[c].entry_id)
    /\ reqs' = [reqs EXCEPT ![c] = Idle]
    /\ UNCHANGED <<users, moods, nextId, now, pureVars>>

other_route(route, cred, llm) ==
    LET Handler(cur) ==
            /\ resp' =
                IF route.handler = "health"
                    THEN Response(route.name, 200, "", [status |-> "healthy"], cur, TRUE)
                ELSE IF route.handler = "profile" /\ cur # None
                    THEN Response(route.name, 200, "", [id |-> cur[1]], cur, TRUE)
                ELSE IF route.handler = "llm" /\ llm
                    THEN Response(route.name, 200, "", [text |-> "generated"], cur, TRUE)
                ELSE InternalError(route.name, cur)
            /\ UNCHANGED <<storeVars, now, reqs, pureVars>>
    IN Serve(route.name, cred, <<route.name>>, Handler)

(***************************************************************************)
(* Mood logs (CosmosService.create_mood_log / get_mood_logs), called on    *)
(* the service.                                                            *)
(***************************************************************************)
create_mood_log(user_id, mood_score, mood_labels, id, t) ==
    [id |-> id, user_id |-> user_id, mood_score |-> mood_score,
     mood_labels |-> mood_labels, timestamp |-> t, context |-> None,
     factors |-> List(<<>>), location |-> None]

\* MoodLog(**item) validation: mood_score ge=1, le=10
MoodLog(item) == IF item.mood_score \notin 1..10 THEN {"mood_score"} ELSE {}

\* the possible result lists; [] on any exception, a stored item that does
\* not validate as a MoodLog included
get_mood_logs(store, user_id, limit, skip, ok) ==
    IF ~ ok THEN {<<>>}
    ELSE {IF \E i \in DOMAIN Page(s, skip, limit) : MoodLog(Page(s, skip, limit)[i]) # {}
          THEN <<>> ELSE Page(s, skip, limit) :
            s \in SortedDesc({d \in store : d.user_id = user_id}, "timestamp")}

call_create_mood_log(user_id, mood_score) ==
    /\ resp = None
    /\ nextId <= MaxDocs
    /\ LET doc == create_mood_log(user_id, mood_score, List(<<"calm">>), nextId, now)
       IN /\ moods' = moods \cup {doc}
          /\ resp' = Response("create_mood_log", 200, "", doc, Some(user_id), TRUE)
    /\ nextId' = nextId + 1
    /\ UNCHANGED <<users, journal, now, reqs, pureVars>>

call_get_mood_logs(user_id, limit, skip, ok) ==
    /\ resp = None
    /\ \E logs \in get_mood_logs(moods, user_id, limit, skip, ok) :
        resp' = Response("get_mood_logs", 200, "", logs, Some(user_id), TRUE)
    /\ UNCHANGED <<storeVars, now, reqs, pureVars>>

Init ==
    /\ users = RegisteredUsers /\ journal = {} /\ moods = {} /\ nextId = 1 /\ now = 0
    /\ reqs = [c \in Clients |-> Idle]
    /\ resp = None
    /\ form = None /\ verdict = NoVerdict /\ call = None /\ assessment = None /\ op = None

Next ==
    \* the remaining routes: GET /login returns the user; the LLM-backed ones
    \* return the model's text or let its exception through; the others call a
    \* method that KernelService / CosmosService does not define
    LET OtherRoutes == {r \in Routes : r.handler \in {"profile", "llm", "missing", "health"}}
    IN
    \/ \E cred \in Credentials,
          skip \in 0..1, limit \in {1, DefaultLimit} :
            list_journal_entries(cred, skip, limit)
    \/ \E cred \in Credentials,
          entry \in NewEntries, llm \in BOOLEAN :
            post_journal_entry(cred, entry, llm)
    \/ \E cred \in Credentials, entry_id \in EntryIds, sok \in BOOLEAN :
            get_journal_entry_route(cred, entry_id, sok)
    \/ \E c \in JournalClients, cred \in Credentials,
          entry_id \in EntryIds, upd \in EntryUpdates, sok \in BOOLEAN :
            put_journal_entry_check(c, cred, entry_id, upd, sok)
    \/ \E c \in JournalClients, sok \in BOOLEAN : put_journal_entry_read(c, sok)
    \/ \E c \in JournalClients : put_journal_entry_replace(c)
    \/ \E c \in JournalClients, cred \in Credentials,
          entry_id \in EntryIds, sok \in BOOLEAN :
            delete_journal_entry_check(c, cred, entry_id, sok)
    \/ \E c \in JournalClients, sok \in BOOLEAN : delete_journal_entry_read(c, sok)
    \/ \E c \in JournalClients : delete_journal_entry_item(c)
    \/ \E route \in OtherRoutes, cred \in Credentials :
          \E llm \in IF route.handler = "llm" THEN BOOLEAN ELSE {TRUE} :
            other_route(route, cred, llm)
    \/ \E u \in RegisteredUsers, mood_score \in {3} :
            call_create_mood_log(u.id, mood_score)
    \/ \E u \in RegisteredUsers, limit \in {1, DefaultLimit}, skip \in 0..1,
          ok \in BOOLEAN :
            call_get_mood_logs(u.id, limit, skip, ok)
    \/ Deliver

Spec == Init /\ [][Next]_vars

\* C4: user email is unique: no two stored users have the same email.
C4_UniqueEmail ==
    \A u1, u2 \in users : u1.email = u2.email => u1 = u2

\* C6: get_current_user returns a user exactly when the token is signed with
\* the configured key, not past exp, carries sub, and a user with that email
\* is stored (and the lookup did not fail); otherwise 401, never a user.
C6_CurrentUser ==
    \A token \in Tokens, ok \in BOOLEAN :
        \A r \in get_current_user(users, token, now, ok) :
            LET valid == /\ token.key = SECRET_KEY
                         /\ ~ (token.exp < now)
                         /\ token.sub # None
                         /\ ok
                         /\ \E u \in users : Some(u.email) = token.sub
            IN /\ valid => r \in users /\ Some(r.email) = token.sub
               /\ ~ valid => r = Unauthorized

C6_Witness ==
    /\ resp # None
    /\ resp.route = "GET /login"
    /\ resp.status = 200
    /\ now > 0
    /\ \E u \in users : u.id = resp.body.id

\* C7: authenticate_user returns the stored user exactly when a user with
\* that email exists and the password verifies against its stored hash.
C7_Authenticate ==
    \A username \in Emails, password \in Passwords :
        \A r \in authenticate_user(users, username, password, TRUE) :
            LET good == {u \in users : /\ u.email = username
                                       /\ verify_password(password, u.hashed_password)}
            IN IF good = {} THEN r = None ELSE r \in good

(***************************************************************************)
(* Ownership of journal entries.                                           *)
(***************************************************************************)

\* C1: a GET, PUT or DELETE /journal/{e.id} by an authenticated user who does
\* not own e is answered 404 with a body that holds none of e's fields (it
\* is the error body of the request's path), and an entry is removed or
\* replaced only by a request of its owner naming it.
C1_NonOwnerDenied ==
    /\ [](resp # None /\ resp.cur # None
            /\ resp.route \in {"GET /journal/{id}", "PUT /journal/{id}",
                                "DELETE /journal/{id}"}
            /\ (\E e \in journal : e.id = resp.path[2] /\ Some(e.user_id) # resp.cur)
          => /\ resp.status = 404
             /\ DOMAIN resp.body \cap ModelKeys = {}
             /\ resp.body = http_exception_handler(404, "Journal entry not found",
                                                   resp.path))
    /\ [][\A e \in journal : e \notin journal' =>
                \E c \in Clients : /\ reqs[c].kind \in {"put", "delete"}
                                   /\ reqs[c].entry_id = e.id
                                   /\ reqs[c].cur = Some(e.user_id)]_vars

C1_Witness ==
    \* the entries other than cur's that a response's request names
    LET ForeignEntries(r) ==
            {e \in journal : e.id = r.path[2] /\ Some(e.user_id) # r.cur}
    IN
    /\ resp # None
    /\ resp.route = "DELETE /journal/{id}"
    /\ resp.cur # None
    /\ resp.status = 404
    /\ ForeignEntries(resp) # {}

\* C2: for GET, PUT and DELETE /journal/{id} the response for an id that
\* belongs to another user is the response for an id no entry has: status
\* 404, detail 'Journal entry not found', and a body that depends on the
\* request alone.
C2_Indistinguishable ==
    LET IdRoutes == {"GET /journal/{id}", "PUT /journal/{id}", "DELETE /journal/{id}"}
    IN
    \* a response without what the request itself determines (the path it named)
    LET Masked(r) == [r EXCEPT !.path = <<r.route>>, !.body.resource = None]
    IN
    /\ \A route \in IdRoutes, u \in users, e \in journal, ok \in BOOLEAN :
            e.user_id # u.id =>
                LET foreign == journal_entry_or_404(route, journal, e.id, Some(u.id), ok)
                    missing == journal_entry_or_404(route, journal, 0, Some(u.id), ok)
                IN /\ foreign.status = 404
                   /\ foreign.detail = "Journal entry not found"
                   /\ missing.status = 404
                   /\ missing.detail = "Journal entry not found"
                   /\ Masked(foreign) = Masked(missing)
    /\ resp # None /\ resp.route \in IdRoutes /\ resp.status = 404
        => resp = JournalNotFound(resp.route, resp.path[2], resp.cur)

C2_Witness ==
    \* the entries other than cur's that a response's request names
    LET ForeignEntries(r) ==
            {e \in journal : e.id = r.path[2] /\ Some(e.user_id) # r.cur}
    IN
    /\ resp # None
    /\ resp.route = "GET /journal/{id}"
    /\ resp.cur # None
    /\ resp.status = 404
    /\ resp.detail = "Journal entry not found"
    /\ ForeignEntries(resp) # {}
    /\ \A e \in journal : e.id # 0

\* C3: get_journal_entries and get_mood_logs return only records whose
\* user_id is the requesting user's id, whatever the store holds, and so
\* does every GET /journal/ response.
C3_ListingIsolated ==
    /\ \A u \in users, skip \in 0..1, limit \in {1, DefaultLimit} :
        /\ \A entries \in get_journal_entries(journal, u.id, skip, limit) :
                \A i \in DOMAIN entries : entries[i].user_id = u.id
        /\ \A ok \in BOOLEAN :
                \A logs \in get_mood_logs(moods, u.id, limit, skip, ok) :
                    \A i \in DOMAIN logs : logs[i].user_id = u.id
    /\ resp # None /\ resp.route \in {"GET /journal/", "get_mood_logs"}
            /\ resp.status = 200
        => \A i \in DOMAIN resp.body : Some(resp.body[i].user_id) = resp.cur

C3_Witness ==
    /\ resp # None
    /\ resp.route = "GET /journal/"
    /\ resp.status = 200
    /\ resp.body # <<>>
    /\ \E e \in journal : /\ Some(e.user_id) # resp.cur
                          /\ e.type = Some("journal_entry")

(***************************************************************************)
(* The authentication gate.                                                *)
(***************************************************************************)

\* the routes mounted under /api/{auth,journal,mood,mindfulness,insights}
RouterRoutes == {r \in Routes : r.router # "app"}

\* C5 as stated: every endpoint of the API other than register and token
\* answers a request without a valid token with 401, its handler not run.
C5_AllEndpoints ==
    \* a response to a request that carried no valid token, on one of routes
    LET Unauthenticated(routes) ==
            LET TokenFree == {"POST /register", "POST /token"}
            IN
            /\ resp # None
            /\ resp.cur = None
            /\ \E r \in routes : r.name = resp.route /\ r.name \notin TokenFree
    IN
    LET Rejected401 ==
            /\ resp.status = 401
            /\ ~ resp.handler
            /\ resp.body.auth_required
    IN
    Unauthenticated(Routes) => Rejected401

\* C5: every endpoint under /api/{auth,journal,mood,mindfulness,insights}
\* other than register and token answers a request without a valid token
\* with 401 and does not run its handler; a PUT or DELETE in flight runs for
\* a stored user.
C5_RouterEndpoints ==
    \* a response to a request that carried no valid token, on one of routes
    LET Unauthenticated(routes) ==
            LET TokenFree == {"POST /register", "POST /token"}
            IN
            /\ resp # None
            /\ resp.cur = None
            /\ \E r \in routes : r.name = resp.route /\ r.name \notin TokenFree
    IN
    LET Rejected401 ==
            /\ resp.status = 401
            /\ ~ resp.handler
            /\ resp.body.auth_required
    IN
    /\ Unauthenticated(RouterRoutes) => Rejected401
    /\ \A c \in Clients : reqs[c].kind \in {"put", "delete"} =>
            \E u \in users : reqs[c].cur = Some(u.id)

C5_Witness ==
    \* a response to a request that carried no valid token, on one of routes
    LET Unauthenticated(routes) ==
            LET TokenFree == {"POST /register", "POST /token"}
            IN
            /\ resp # None
            /\ resp.cur = None
            /\ \E r \in routes : r.name = resp.route /\ r.name \notin TokenFree
    IN
    /\ Unauthenticated(RouterRoutes)
    /\ resp.route = "GET /login"
    /\ resp.detail = "Could not validate credentials"
    /\ journal # {}

(***************************************************************************)
(* SafetyPlugin.assess_risk (backend/plugins/safety.py).  The classifier's *)
(* reply is a string; a JSON value is a record tagged by its JSON type.    *)
(***************************************************************************)
Str_none == <<"n","o","n","e">>
Str_low == <<"l","o","w">>
Str_moderate == <<"m","o","d","e","r","a","t","e">>
Str_high == <<"h","i","g","h">>
RiskLevels == {Str_none, Str_low, Str_moderate, Str_high}

NoValidInputProvided ==
    <<"N","o"," ","v","a","l","i","d"," ","i","n","p","u","t"," ","p",
      "r","o","v","i","d","e","d">>
NoReasoningProvided ==
    <<"N","o"," ","r","e","a","s","o","n","i","n","g"," ","p","r","o",
      "v","i","d","e","d">>
AssessmentFailedText ==
    <<"A","s","s","e","s","s","m","e","n","t"," ","f","a","i","l","e",
      "d","."," ","P","l","e","a","s","e"," ","t","r","y"," ","a",
      "g","a","i","n",".">>

Whitespace == {" ", "\n", "\t"}

\* str.lower
lower(s) ==
    [i \in DOMAIN s |->
        IF isupper(s[i])
        THEN LowerLetters[CHOOSE k \in DOMAIN UpperLetters : UpperLetters[k] = s[i]]
        ELSE s[i]]

\* str.strip
strip(s) ==
    LET keep == {i \in DOMAIN s : s[i] \notin Whitespace} IN
    IF keep = {} THEN <<>>
    ELSE SubSeq(s, CHOOSE i \in keep : \A j \in keep : i <= j,
                   CHOOSE i \in keep : \A j \in keep : j <= i)

\* response.split(":", 1), for a response that contains ":"
split_colon(s) ==
    LET i == CHOOSE k \in DOMAIN s : s[k] = ":" /\ \A j \in 1..(k - 1) : s[j] # ":"
    IN <<SubSeq(s, 1, i - 1), SubSeq(s, i + 1, Len(s))>>

JStr(s) == [json |-> "string", v |-> s]
JNum(n) == [json |-> "number", n |-> n]
JNull == [json |-> "null"]
Absent == [json |-> "absent"]
JObj(risk_level, reasoning) ==
    [json |-> "object", risk_level |-> risk_level, reasoning |-> reasoning]

\* the spellings of a level a reply may carry
LevelSpellings ==
    {Str_none, Str_low, Str_high, <<"H","I","G","H">>, <<"M","o","d","e","r","a","t","e">>,
     <<"L","O","W">>, <<"s","e","v","e","r","e">>}
Reasons == {<<"r">>, <<"n","o",":","r">>}

JsonValues ==
    {JObj(l, r) :
        l \in {Absent, JNull, JNum(3)} \cup {JStr(s) : s \in LevelSpellings},
        r \in {Absent, JNull, JStr(<<" ","r"," ">>)} \cup {JStr(s) : s \in Reasons}}
    \cup {JNull, JNum(3), JStr(Str_high)}

\* json.dumps of a scalar, and of a value
dumps_scalar(v) ==
    IF v.json = "string" THEN <<"\"">> \o v.v \o <<"\"">>
    ELSE IF v.json = "number" THEN <<"3">>
    ELSE <<"n","u","l","l">>

dumps(v) ==
    IF v.json # "object" THEN dumps_scalar(v)
    ELSE LET a == IF v.risk_level = Absent THEN <<>>
                  ELSE <<"\"","r","i","s","k","_","l","e","v","e","l","\"",":"," ">> \o dumps_scalar(v.risk_level)
             b == IF v.reasoning = Absent THEN <<>>
                  ELSE <<"\"","r","e","a","s","o","n","i","n","g","\"",":"," ">> \o dumps_scalar(v.reasoning)
             sep == IF a # <<>> /\ b # <<>> THEN <<",", " ">> ELSE <<>>
         IN <<"{">> \o a \o sep \o b \o <<"}">>

JSONDecodeError == [json |-> "JSONDecodeError"]

\* json.loads: the value the text is the JSON of, or JSONDecodeError
json_loads(text) ==
    LET values == {v \in JsonValues : dumps(v) = text} IN
    IF values = {} THEN JSONDecodeError ELSE CHOOSE v \in values : TRUE

\* result.get(key, default) on a parsed JSON object
get(obj, key, default) == IF obj[key] = Absent THEN JStr(default) ELSE obj[key]

Assessment(risk_level, reasoning, requires_immediate_action) ==
    [risk_level |-> risk_level, reasoning |-> reasoning,
     requires_immediate_action |-> requires_immediate_action]

\* lines 159-163: the "safe default" of the except branch
AssessmentFailed == Assessment(Str_none, AssessmentFailedText, FALSE)

log_safety_assessment_raises(cosmos) == cosmos # "logs"

RequiresActionHighOnly(risk_level) == risk_level = Str_high

\* line 122: risk_level in ["moderate", "high"]
requires_immediate_action(risk_level) == risk_level \in {Str_moderate, Str_high}

\* lines 114-144: validate the level, build the result, log it, return it;
\* an exception on the way (reasoning.strip() on a non-string, the log call)
\* lands in the except branch
finish(risk_level, reasoning, cosmos) ==
    LET level == IF risk_level \notin RiskLevels THEN Str_none ELSE risk_level IN
    IF reasoning.json # "string" THEN AssessmentFailed
    ELSE IF log_safety_assessment_raises(cosmos) THEN AssessmentFailed
    ELSE Assessment(level, strip(reasoning.v), requires_immediate_action(level))

\* "not input_text or not isinstance(input_text, str)"
InvalidInput(input_text) ==
    \/ input_text.type # "str"
    \/ input_text.v = <<>>

\* assess_risk's body.  agent is what get_agent_response does: it raises, or
\* returns a response text
assess_risk(kernel, input_text, agent, cosmos) ==
    IF ~ kernel THEN [raised |-> "ValueError"]
    ELSE IF InvalidInput(input_text)
        THEN Assessment(Str_none, NoValidInputProvided, FALSE)
    ELSE IF agent.raises THEN AssessmentFailed
    ELSE LET response == agent.response
             result == json_loads(response)
         IN IF result = JSONDecodeError
            THEN IF ":" \in Range(response)
                 THEN finish(lower(strip(split_colon(response)[1])),
                             JStr(split_colon(response)[2]), cosmos)
                 ELSE finish(Str_none, JStr(response), cosmos)
            ELSE IF result.json # "object" THEN AssessmentFailed
            ELSE IF get(result, "risk_level", Str_none).json # "string"
                 THEN AssessmentFailed
            ELSE finish(lower(get(result, "risk_level", Str_none).v),
                        get(result, "reasoning", NoReasoningProvided), cosmos)

\* one call of the plugin function
call_assess_risk ==
    /\ call # None
    /\ assessment = None
    /\ assessment' = assess_risk(call.kernel, call.input_text, call.agent, call.cosmos)
    /\ UNCHANGED <<storeVars, now, reqs, resp, form, verdict, call, op>>

InitRisk ==
    LET AgentOutcomes ==
            LET Replies ==
                    \* the replies that are no JSON text
                    LET TextReplies ==
                            {l \o <<":", " ">> \o r : l \in LevelSpellings, r \in Reasons}
                            \cup {<<" ","H","i","g","h"," ",":","r">>, Str_high, <<>>, <<"j","s","o","n","{","}">>}
                    IN
                    {dumps(v) : v \in JsonValues} \cup TextReplies
            IN
            {[raises |-> TRUE, response |-> <<>>]}
                         \cup {[raises |-> FALSE, response |-> r] : r \in Replies}
    IN
    \* the services a plugin is constructed with: CosmosService (which defines
    \* no log_safety_assessment), a service whose log_safety_assessment
    \* succeeds, and one whose log_safety_assessment raises
    LET Services == {"CosmosService", "logs", "raises"}
    IN
    LET InputTexts ==
            {[type |-> "str", v |-> <<"s","a","d">>], [type |-> "str", v |-> <<>>],
             [type |-> "NoneType", v |-> <<>>], [type |-> "int", v |-> <<>>]}
    IN
    /\ users = {} /\ journal = {} /\ moods = {} /\ nextId = 1 /\ now = 0
    /\ reqs = [c \in Clients |-> Idle]
    /\ resp = None
    /\ form = None /\ verdict = NoVerdict
    /\ \E kernel \in BOOLEAN, input_text \in InputTexts :
       \E agent \in AgentOutcomes, cosmos \in Services :
            call = [kernel |-> kernel, input_text |-> input_text,
                    agent |-> agent, cosmos |-> cosmos]
    /\ assessment = None
    /\ op = None

\* the methods class SafetyPlugin defines
SafetyPlugin ==
    {"__init__", "set_kernel", "_get_classification_agent",
     "_get_conversation_agent", "assess_risk", "provide_grounding_prompts"}

\* on_message lines 57-60 and the unit tests: provide_resources is called on
\* the safety plugin with the assessment assess_risk returned
call_provide_resources ==
    \* attribute lookup followed by the call: a name the class does not define
    \* raises AttributeError and nothing is returned
    LET call_method(methods, name) ==
            IF name \in methods
            THEN [raised |-> None, method |-> name, returned |-> <<>>]
            ELSE [raised |-> Some("AttributeError"), method |-> name, returned |-> <<>>]
    IN
    /\ assessment # None
    /\ "risk_level" \in DOMAIN assessment
    /\ resp = None
    /\ resp' = Some(call_method(SafetyPlugin, "provide_resources"))
    /\ UNCHANGED <<storeVars, now, reqs, form, verdict, call, assessment, op>>

NextRisk == call_assess_risk \/ call_provide_resources

SpecRisk == InitRisk /\ [][NextRisk]_vars

\* C9: in every result assess_risk returns, requires_immediate_action is
\* true exactly when risk_level is moderate or high (false for none, low).
C9_ActionIffModerateOrHigh ==
    assessment # None /\ "risk_level" \in DOMAIN assessment =>
        /\ assessment.risk_level \in {Str_moderate, Str_high}
            => assessment.requires_immediate_action = TRUE
        /\ assessment.risk_level \in {Str_none, Str_low}
            => assessment.requires_immediate_action = FALSE
        /\ assessment.risk_level \in RiskLevels

C9_Witness ==
    \* the call went through to the classifier, which replied
    LET Replied ==
            /\ assessment # None
            /\ call.kernel
            /\ ~ InvalidInput(call.input_text)
            /\ ~ call.agent.raises
    IN
    /\ Replied
    /\ assessment.risk_level = Str_moderate
    /\ assessment.requires_immediate_action

\* C10: risk_level is always one of the four levels; a reply that is the
\* JSON object {risk_level, reasoning} or the text '<LEVEL>: <reason>', in
\* any letter case, yields that level lower-cased with the reason as
\* reasoning, and a level that is none of the four yields none.
C10_LevelFromReply ==
    \* the call went through to the classifier, which replied
    LET Replied ==
            /\ assessment # None
            /\ call.kernel
            /\ ~ InvalidInput(call.input_text)
            /\ ~ call.agent.raises
    IN
    Replied =>
        /\ assessment.risk_level \in RiskLevels
        /\ \A l \in LevelSpellings, r \in Reasons :
            \/ call.agent.response = dumps(JObj(JStr(l), JStr(r)))
            \/ call.agent.response = l \o <<":", " ">> \o r
            => IF lower(l) \in RiskLevels
               THEN /\ assessment.risk_level = lower(l)
                    /\ assessment.reasoning = r
               ELSE assessment.risk_level = Str_none

\* C11: whenever a message is assessed as moderate or high risk,
\* provide_resources returns a resource text that names the 988 hotline and
\* the Crisis Text Line; for risk level none it returns the empty string.
C11_ResourcesDisclosed ==
    \* text contains the characters of word in a row
    LET Contains(text, word) ==
            \E i \in 0..(Len(text) - Len(word)) :
                \A j \in 1..Len(word) : text[i + j] = word[j]
    IN
    resp # None /\ assessment # None /\ "risk_level" \in DOMAIN assessment =>
        /\ resp[1].raised = None
        /\ assessment.risk_level \in {Str_moderate, Str_high} =>
            /\ Contains(resp[1].returned, <<"9","8","8">>)
            /\ Contains(resp[1].returned,
                        <<"C","r","i","s","i","s"," ","T","e","x","t"," ","L","i","n","e">>)
        /\ assessment.risk_level = Str_none => resp[1].returned = <<>>

(***************************************************************************)
(* SpecJournal: the journal router used by the two registered users with   *)
(* their own tokens, posting entries that differ in every field.           *)
(***************************************************************************)

\* the Authorization header of each registered user
UserCredentials ==
    {[token |-> [sub |-> Some(e), exp |-> MaxTime, key |-> SECRET_KEY], ok |-> TRUE] :
        e \in Emails}

SpecJournal ==
    /\ Init
    /\ [][
          \/ \E cred \in UserCredentials, entry \in
                  {[content |-> "c1", mood_indicators |-> List(<<>>), mood_score |-> Some(5)],
                   [content |-> "c3", mood_indicators |-> List(<<"sad">>),
                    mood_score |-> None]} :
                  post_journal_entry(cred, entry, TRUE)
          \/ \E cred \in UserCredentials, entry_id \in EntryIds, sok \in BOOLEAN :
                  get_journal_entry_route(cred, entry_id, sok)
          \/ \E c \in JournalClients, cred \in UserCredentials,
                entry_id \in EntryIds, upd \in EntryUpdates :
                  put_journal_entry_check(c, cred, entry_id, upd, TRUE)
          \/ \E c \in JournalClients : put_journal_entry_read(c, TRUE)
          \/ \E c \in JournalClients : put_journal_entry_replace(c)
          \/ \E c \in JournalClients, cred \in UserCredentials, entry_id \in EntryIds :
                  delete_journal_entry_check(c, cred, entry_id, TRUE)
          \/ \E c \in JournalClients : delete_journal_entry_read(c, TRUE)
          \/ \E c \in JournalClients : delete_journal_entry_item(c)
          \/ Deliver
      ]_vars

SpecPage ==
    /\ Init
    /\ [][
          \/ \E cred \in UserCredentials :
                  post_journal_entry(cred, [content |-> "c1", mood_indicators |-> List(<<>>),
                                            mood_score |-> Some(5)], TRUE)
          \/ \E cred \in UserCredentials, skip \in 0..MaxDocs, limit \in {1, 2, DefaultLimit} :
                  list_journal_entries(cred, skip, limit)
          \/ \E c \in JournalClients, cred \in UserCredentials,
                entry_id \in 1..MaxDocs, upd \in EntryUpdates :
                  put_journal_entry_check(c, cred, entry_id, upd, TRUE)
          \/ \E c \in JournalClients : put_journal_entry_read(c, TRUE)
          \/ \E c \in JournalClients : put_journal_entry_replace(c)
          \/ Tick
          \/ Deliver
      ]_vars

\* C13: get_journal_entries(user, skip, limit) returns exactly the elements
\* skip+1 .. skip+limit of the user's journal entries ordered by created_at
\* descending (entries of equal created_at in either order): at most limit
\* entries, none of the skip most recent ones, most recent first, so that
\* the pages of one ordering are disjoint and cover all the user's entries.
C13_Pagination ==
    [][\A cred \in UserCredentials, skip \in 0..MaxDocs, limit \in {1, 2, DefaultLimit} :
        list_journal_entries(cred, skip, limit) =>
            \E s \in SortedDesc({d \in journal :
                                    \E who \in AuthOutcomes(cred.token, cred.ok) :
                                        Some(d.user_id) = CurOf(who)},
                                "created_at") :
                /\ Len(resp'.body) = Len(Page(s, skip, limit))
                /\ \A i \in DOMAIN resp'.body :
                        resp'.body[i] = JournalEntry(Page(s, skip, limit)[i])
      ]_vars

\* C14: an update by the owner takes effect: when PUT /journal/{id} succeeds,
\* the returned and the stored entry carry the supplied value for every
\* supplied field (so a following GET returns the new values).
C14_UpdateTakesEffect ==
    [][\A c \in JournalClients :
        put_journal_entry_replace(c) /\ resp'.status = 200 =>
            \A k \in DOMAIN reqs[c].upd :
                /\ resp'.body[k] = reqs[c].upd[k]
                /\ \A d \in journal' :
                        d.id = reqs[c].entry_id => d[k] = reqs[c].upd[k]
      ]_vars

(***************************************************************************)
(* SpecRetry: one LLM-backed operation and the tenacity retry layers       *)
(* around the model invocation: AzureAgentService.get_agent_response, the  *)
(* plugin function, and KernelService._call_remote_model when the          *)
(* operation is a KernelService method.                                    *)
(***************************************************************************)
Transient == {"ConnectionError", "TimeoutError"}

\* what one invocation of the model does: a reply, or an exception
ModelOutcomes == {"ok"} \cup Transient \cup {"ValueError"}

\* tenacity's default retry condition: any Exception
AnyException == Transient \cup {"ValueError", "RetryError", "KernelFunctionNotFound"}

RetryIfAnyException(types, e) == TRUE

\* retry=retry_if_exception_type((ConnectionError, TimeoutError))
retry_if_exception_type(types, e) == e \in types

\* a retry layer: the decorator's stop and retry arguments, and whether the
\* function body catches the exception and returns normally
Layer(name, stop, retry, catches) ==
    [name |-> name, stop |-> stop, retry |-> retry, catches |-> catches]

\* get_agent_response: stop_after_attempt(3), transient errors, the except
\* clause re-raises
get_agent_response == Layer("get_agent_response", 3, Transient, FALSE)

\* _call_remote_model: stop_after_attempt(3), transient errors, the except
\* clause re-raises
_call_remote_model == Layer("_call_remote_model", 3, Transient, FALSE)

\* the plugin functions that call get_agent_response, each inside
\* "try: .. except Exception: return <fallback>"; stop is the decorator's
\* stop_after_attempt (1: no retry decorator)
PluginFunctions ==
    {[plugin |-> "mood", function |-> "analyze_mood", stop |-> 2, retry |-> AnyException],
     [plugin |-> "mood", function |-> "detect_patterns", stop |-> 1, retry |-> {}],
     [plugin |-> "journal", function |-> "add_entry", stop |-> 1, retry |-> {}],
     [plugin |-> "journal", function |-> "analyze_entries", stop |-> 2, retry |-> AnyException],
     [plugin |-> "journal", function |-> "generate_prompt", stop |-> 1, retry |-> {}],
     [plugin |-> "mindfulness", function |-> "guide_exercise", stop |-> 1, retry |-> {}],
     [plugin |-> "mindfulness", function |-> "analyze_feedback", stop |-> 1, retry |-> {}],
     [plugin |-> "safety", function |-> "assess_risk", stop |-> 3, retry |-> Transient],
     [plugin |-> "safety", function |-> "provide_grounding_prompts", stop |-> 1, retry |-> {}]}

\* the value a plugin function returns from its except branch
Fallback(function) ==
    CASE function = "analyze_mood" -> "Unable to analyze mood. Please try again later."
      [] function = "detect_patterns" -> "Unable to detect patterns. Please try again later."
      [] function = "add_entry" ->
            "An error occurred while saving your journal entry. Please try again."
      [] function = "analyze_entries" -> "Unable to analyze entries. Please try again later."
      [] function = "generate_prompt" ->
            "Describe your current feelings and what led to them."
      [] function = "guide_exercise" -> "the exercise's preset steps"
      [] function = "analyze_feedback" -> "error: Error analyzing feedback"
      [] function = "assess_risk" -> "Assessment failed. Please try again."
      [] function = "provide_grounding_prompts" ->
            "Take a moment to breathe deeply. Focus on your breath going in and out."
      [] OTHER -> "no fallback"

Returned(value) == [raised |-> None, returned |-> Some(value)]
Raised(e) == [raised |-> Some(e), returned |-> None]

\* exception e leaves the body of layer i: the body's except clause, then
\* the decorator's decision (retry, give up with RetryError, or let e pass)
RECURSIVE Raise(_, _, _)
Raise(o, i, e) ==
    LET L == o.layers[i] IN
    IF L.catches
        THEN [o EXCEPT !.pc = "done", !.result = Returned(Fallback(o.function))]
    ELSE IF retry_if_exception_type(L.retry, e) /\ o.attempt[i] < L.stop
        THEN [o EXCEPT !.attempt = [j \in DOMAIN o.attempt |->
                                        IF j = i THEN o.attempt[j] + 1
                                        ELSE IF j < i THEN 1 ELSE o.attempt[j]],
                       !.pc = IF L.name = "_call_remote_model" THEN "remote" ELSE "agent"]
    ELSE LET e2 == IF retry_if_exception_type(L.retry, e) THEN "RetryError" ELSE e IN
         IF i = Len(o.layers)
         THEN [o EXCEPT !.pc = "done", !.result = Raised(e2)]
         ELSE Raise(o, i + 1, e2)

\* _call_remote_model's body: kernel.invoke_plugin(plugin_name, function_name)
call_remote_model ==
    LET Registered(kernel) ==
            IF kernel = "KernelService" THEN {}
            ELSE {<<f.plugin, f.function>> : f \in {g \in PluginFunctions : g.plugin # "safety"}}
    IN
    /\ op # None /\ op.pc = "remote"
    /\ op' = IF <<op.plugin, op.function>> \in Registered(op.kernel)
             THEN [op EXCEPT !.pc = "agent"]
             ELSE Raise(op, Len(op.layers), "KernelFunctionNotFound")
    /\ UNCHANGED <<storeVars, now, reqs, resp, form, verdict, call, assessment>>

\* get_agent_response's body: agent.get_response, one invocation of the model
agent_get_response(outcome) ==
    /\ op # None /\ op.pc = "agent"
    /\ LET o == [op EXCEPT !.log = Append(op.log, outcome)] IN
       op' = IF outcome = "ok"
             THEN [o EXCEPT !.pc = "done", !.result = Returned("response")]
             ELSE Raise(o, 1, outcome)
    /\ UNCHANGED <<storeVars, now, reqs, resp, form, verdict, call, assessment>>

InitRetry ==
    \* the operations: a plugin function called directly, or a KernelService
    \* method; the layers are listed innermost first
    LET Operations ==
            \* KernelService's methods and the plugin function each one invokes
            LET KernelMethods ==
                    {[method |-> "analyze_mood", plugin |-> "mood", function |-> "analyze_mood"],
                     [method |-> "generate_journal_prompt", plugin |-> "journal", function |-> "create_prompt"],
                     [method |-> "analyze_journal_entry", plugin |-> "journal", function |-> "analyze_entry"]}
            IN
            {[via |-> "plugin", kernel |-> "registered", plugin |-> f.plugin,
              function |-> f.function,
              layers |-> <<get_agent_response, Layer(f.function, f.stop, f.retry, TRUE)>>,
              attempt |-> <<1, 1>>, log |-> <<>>, pc |-> "agent", result |-> None] :
                f \in PluginFunctions}
            \cup
            {[via |-> m.method, kernel |-> k, plugin |-> m.plugin, function |-> m.function,
              layers |-> <<get_agent_response,
                           LET fs == {f \in PluginFunctions :
                                        f.plugin = m.plugin /\ f.function = m.function}
                           IN IF fs = {} THEN Layer(m.function, 1, {}, TRUE)
                              ELSE LET f == CHOOSE f \in fs : TRUE
                                   IN Layer(f.function, f.stop, f.retry, TRUE),
                           _call_remote_model>>,
              attempt |-> <<1, 1, 1>>, log |-> <<>>, pc |-> "remote", result |-> None] :
                m \in KernelMethods, k \in {"KernelService", "registered"}}
    IN
    /\ users = {} /\ journal = {} /\ moods = {} /\ nextId = 1 /\ now = 0
    /\ reqs = [c \in Clients |-> Idle]
    /\ resp = None
    /\ form = None /\ verdict = NoVerdict /\ call = None /\ assessment = None
    /\ op \in Operations

SpecRetry ==
    /\ InitRetry
    /\ [][
          \/ call_remote_model
          \/ \E outcome \in ModelOutcomes : agent_get_response(outcome)
      ]_vars

\* C15: one LLM-backed operation invokes the model at most 3 times; a
\* further attempt is made only after the previous one failed with a
\* ConnectionError or TimeoutError (any other error, and a reply, end the
\* call on that attempt); the nested retry layers do not multiply attempts.
C15_AtMostThreeAttempts ==
    /\ Len(op.log) <= 3
    /\ \A i \in 1..(Len(op.log) - 1) : op.log[i] \in Transient
    /\ op.pc = "done" /\ op.log # <<>> /\ op.log[Len(op.log)] \in Transient
        => Len(op.log) = 3

\* a KernelService method, three layers deep, gave up after three transient
\* failures
C15_Witness ==
    /\ Len(op.layers) = 3
    /\ op.log = <<"ConnectionError", "TimeoutError", "ConnectionError">>
    /\ op.pc = "done"

\* C16: every LLM-backed operation - the plugin functions and
\* KernelService.analyze_mood, generate_journal_prompt and
\* analyze_journal_entry - ends by returning a value, its canned fallback
\* when the model failed permanently; no error is propagated to the caller.
C16_FallbackNotError ==
    \* the model failed permanently: a non-transient error, or transient errors
    \* on all three attempts
    LET FailedPermanently(o) ==
            /\ o.log # <<>>
            /\ \/ o.log[Len(o.log)] \in ModelOutcomes \ (Transient \cup {"ok"})
               \/ Len(o.log) = 3 /\ o.log[3] \in Transient
    IN
    op.pc = "done" =>
        /\ op.result.raised = None
        /\ FailedPermanently(op) => op.result.returned = Some(Fallback(op.function))

(***************************************************************************)
(* SpecStore: the CosmosService operations that carry a retry decorator    *)
(* (stop_after_attempt(3), retry_if_exception_type(CosmosHttpResponseError)*)
(* ), each call on a container answering or raising.                       *)
(***************************************************************************)
\* CosmosResourceNotFoundError is a subclass of CosmosHttpResponseError
CosmosHttpErrors == {"CosmosHttpResponseError", "CosmosResourceNotFoundError"}

UpsertPerUser(container, body) ==
    {d \in container : d.user_id # body.user_id} \cup {body}

\* container.create_item(body=..): the item is added under its fresh id
create_item(container, body) == container \cup {body}

\* what one call on a container does
StoreOutcomes == {"ok", "TypeError"} \cup CosmosHttpErrors

FirstEntry == create_journal_entry(1, "c1", List(<<>>), Some(5), None, 1, 0)

\* the operation returns value / raises e
StoreReturn(o, value) == [o EXCEPT !.pc = "done", !.result = Returned(value)]
StoreRaise(o, e) == [o EXCEPT !.pc = "done", !.result = Raised(e)]

\* the decorator's decision on exception e leaving the function body
Retrying(o, e) ==
    IF retry_if_exception_type(CosmosHttpErrors, e)
    THEN IF o.attempt < 3
         THEN [o EXCEPT !.attempt = o.attempt + 1, !.pc = "start"]
         ELSE StoreRaise(o, "RetryError")
    ELSE StoreRaise(o, e)

\* get_user_by_email, lines 68-96: "except Exception: return None"
attempt_get_user_by_email(outcome) ==
    /\ op # None /\ op.function = "get_user_by_email" /\ op.pc = "start"
    /\ \E user \in get_user_by_email(users, op.arg.email, outcome = "ok") :
        op' = StoreReturn([op EXCEPT !.log = Append(op.log, outcome)], user)
    /\ UNCHANGED <<storeVars, now, reqs, resp, form, verdict, call, assessment>>

\* get_user, lines 116-142: not-found and unexpected errors return None, a
\* CosmosHttpResponseError is re-raised to the decorator
attempt_get_user(outcome) ==
    /\ op # None /\ op.function = "get_user" /\ op.pc = "start"
    /\ LET o == [op EXCEPT !.log = Append(op.log, outcome)]
           items == {u \in users : u.id = op.arg.user_id}
       IN op' = IF outcome = "ok" /\ items # {}
                    THEN StoreReturn(o, CHOOSE u \in items : TRUE)
                ELSE IF outcome = "ok" \/ outcome = "CosmosResourceNotFoundError"
                    THEN StoreReturn(o, None)
                ELSE IF outcome = "CosmosHttpResponseError" THEN Retrying(o, outcome)
                ELSE StoreReturn(o, None)
    /\ UNCHANGED <<storeVars, now, reqs, resp, form, verdict, call, assessment>>

\* update_journal_entry, lines 298-301: get_journal_entry, which returns
\* None on any exception, and the ownership check
attempt_update_journal_entry_read(outcome) ==
    /\ op # None /\ op.function = "update_journal_entry" /\ op.pc = "start"
    /\ LET o == [op EXCEPT !.log = Append(op.log, outcome)]
           entry == get_journal_entry(journal, op.arg.entry_id, outcome = "ok")
       IN op' = IF entry = None \/ entry.user_id # op.arg.user_id
                THEN StoreReturn(o, None)
                ELSE [o EXCEPT !.pc = "replace",
                               !.body = update_dict(entry, op.arg.update_fields, now)]
    /\ UNCHANGED <<storeVars, now, reqs, resp, form, verdict, call, assessment>>

\* lines 303-331: replace_item; not-found returns None, any other exception
\* is re-raised to the decorator
attempt_update_journal_entry_replace(outcome) ==
    /\ op # None /\ op.function = "update_journal_entry" /\ op.pc = "replace"
    /\ LET o == [op EXCEPT !.log = Append(op.log, outcome)]
           old == {d \in journal : d.id = op.arg.entry_id}
           new == Doc(op.body)
       IN IF outcome = "ok" /\ old # {}
          THEN /\ journal' = (journal \ old) \cup {new}
               /\ op' = StoreReturn(o, JournalEntry(new))
          ELSE /\ UNCHANGED journal
               /\ op' = IF outcome \in {"ok", "CosmosResourceNotFoundError"}
                        THEN StoreReturn(o, None)
                        ELSE Retrying(o, outcome)
    /\ UNCHANGED <<users, moods, nextId, now, reqs, resp, form, verdict, call, assessment>>

\* create_mood_log, lines 373-411: each attempt builds the document under a
\* fresh uuid and calls create_item; a CosmosHttpResponseError is re-raised
\* to the decorator, any other exception becomes a ValueError.  applied: the
\* container stored the item although the call raised
\* CosmosHttpResponseError (a request that timed out after the write)
attempt_create_mood_log(outcome, applied) ==
    /\ op # None /\ op.function = "create_mood_log" /\ op.pc = "start"
    /\ applied => outcome = "CosmosHttpResponseError"
    /\ LET o == [op EXCEPT !.log = Append(op.log, outcome)]
           doc == create_mood_log(op.arg.user_id, op.arg.mood_score,
                                  List(<<"calm">>), nextId, now)
       IN IF outcome = "ok"
          THEN /\ moods' = create_item(moods, doc)
               /\ nextId' = nextId + 1
               /\ op' = StoreReturn(o, doc)
          ELSE /\ IF applied
                  THEN moods' = create_item(moods, doc) /\ nextId' = nextId + 1
                  ELSE UNCHANGED <<moods, nextId>>
               /\ op' = IF outcome \in CosmosHttpErrors THEN Retrying(o, outcome)
                        ELSE StoreRaise(o, "ValueError")
    /\ UNCHANGED <<users, journal, now, reqs, resp, form, verdict, call, assessment>>

InitStore ==
    LET StoreOperations ==
            {[function |-> "get_user_by_email", arg |-> [email |-> e]] : e \in Emails}
            \cup {[function |-> "get_user", arg |-> [user_id |-> u.id]] : u \in RegisteredUsers}
            \cup {[function |-> "update_journal_entry",
                   arg |-> [entry_id |-> 1, user_id |-> 1, update_fields |-> f]] :
                    f \in {[content |-> "c2"], [mood_score |-> Some(7)]}}
            \cup {[function |-> "create_mood_log",
                   arg |-> [user_id |-> u.id, mood_score |-> s]] :
                    u \in RegisteredUsers, s \in {1, 10}}
    IN
    /\ users = RegisteredUsers /\ journal = {FirstEntry} /\ moods = {}
    /\ nextId = 2 /\ now = 0
    /\ reqs = [c \in Clients |-> Idle]
    /\ resp = None
    /\ form = None /\ verdict = NoVerdict /\ call = None /\ assessment = None
    /\ \E o \in StoreOperations :
        op = [function |-> o.function, arg |-> o.arg, attempt |-> 1, log |-> <<>>,
              pc |-> "start", body |-> None, result |-> None]

SpecStore ==
    /\ InitStore
    /\ [][
          \/ \E outcome \in StoreOutcomes : attempt_get_user_by_email(outcome)
          \/ \E outcome \in StoreOutcomes : attempt_get_user(outcome)
          \/ \E outcome \in StoreOutcomes : attempt_update_journal_entry_read(outcome)
          \/ \E outcome \in StoreOutcomes : attempt_update_journal_entry_replace(outcome)
          \/ \E outcome \in StoreOutcomes, applied \in BOOLEAN :
                attempt_create_mood_log(outcome, applied)
      ]_vars

\* C17: a store operation that fails with a transient
\* CosmosHttpResponseError is retried silently, up to 3 attempts, for each of
\* get_user_by_email, get_user, update_journal_entry and create_mood_log: the
\* caller gets an outcome of such a failure only after the third failed
\* attempt, and an operation that succeeds on a retry returns what it would
\* have returned at once.
C17_StoreRetried ==
    \* what the operation returns when every store call succeeds at once
    LET AtOnce(o) ==
            CASE o.function = "get_user_by_email" ->
                    CHOOSE u \in users : u.email = o.arg.email
              [] o.function = "get_user" -> CHOOSE u \in users : u.id = o.arg.user_id
              [] o.function = "update_journal_entry" ->
                    JournalEntry(Doc(update_dict(JournalEntry(FirstEntry),
                                                 o.arg.update_fields, now)))
              [] o.function = "create_mood_log" ->
                    create_mood_log(o.arg.user_id, o.arg.mood_score, List(<<"calm">>),
                                    nextId - 1, now)
    IN
    op.pc = "done" =>
        /\ op.log[Len(op.log)] = "CosmosHttpResponseError" => op.attempt = 3
        /\ op.log[Len(op.log)] = "ok" => op.result = Returned(AtOnce(op))

(***************************************************************************)
(* SpecError: one request after another through the add_correlation_id     *)
(* middleware, the application below it (the route and the handlers        *)
(* registered for HTTPException, RequestValidationError, 400 and 403), and *)
(* the handler registered for Exception above it.                          *)
(***************************************************************************)
MaxRequests == 3

UnexpectedErrorMessage == "An unexpected error occurred."

\* JSONResponse(status_code=, content={"message":, "correlation_id":, ..});
\* header is the X-Correlation-ID header, None when the response has none
JSONResponse(status_code, message, correlation_id, header) ==
    [status |-> status_code, message |-> message, correlation_id |-> correlation_id,
     header |-> header]

\* getattr(request.state, "correlation_id", str(uuid.uuid4())): the id the
\* middleware stored, or a fresh one
state_correlation_id(state, fresh) == IF state = None THEN fresh ELSE state[1]

\* the Exception handler, lines 72-91
global_exception_handler(state, fresh, exc) ==
    JSONResponse(500, UnexpectedErrorMessage, Some(state_correlation_id(state, fresh)), None)

\* the application below the middleware: the endpoint's response, the
\* response of the handler registered for what it raised, or the exception
\* itself when no handler below the middleware takes it
call_next(state, fresh, outcome) ==
    LET id == state_correlation_id(state, fresh) IN
    CASE outcome.kind = "return" ->
            [raised |-> None, response |-> Some(JSONResponse(200, outcome.text, None, None))]
      [] outcome.kind = "HTTPException" /\ outcome.status = 400 ->
            [raised |-> None, response |-> Some(JSONResponse(400, outcome.text, Some(id), None))]
      [] outcome.kind = "HTTPException" /\ outcome.status = 403 ->
            [raised |-> None,
             response |-> Some(JSONResponse(403,
                "You don't have permission to access this resource", Some(id), None))]
      [] outcome.kind = "HTTPException" /\ outcome.status \notin {400, 403} ->
            [raised |-> None,
             response |-> Some(JSONResponse(outcome.status, outcome.text, Some(id), None))]
      [] outcome.kind = "RequestValidationError" ->
            [raised |-> None, response |-> Some(JSONResponse(422, "Validation error", Some(id), None))]
      [] outcome.kind = "Exception" -> [raised |-> Some(outcome), response |-> None]

ExceptLeaksText(correlation_id, result) ==
    IF result.raised = None
    THEN [raised |-> None,
          response |-> Some([result.response[1] EXCEPT !.header = Some(correlation_id)])]
    ELSE [raised |-> None,
          response |-> Some(JSONResponse(500, result.raised[1].text, Some(correlation_id), None))]

\* add_correlation_id after call_next, lines 52-70: the header is set on the
\* response; an exception becomes the 500 response
add_correlation_id(correlation_id, result) ==
    IF result.raised = None
    THEN [raised |-> None,
          response |-> Some([result.response[1] EXCEPT !.header = Some(correlation_id)])]
    ELSE [raised |-> None,
          response |-> Some(JSONResponse(500, UnexpectedErrorMessage, Some(correlation_id), None))]

\* lines 49-50: a request arrives; its correlation id is generated and
\* stored in request.state (sent: the responses to the earlier requests)
request_arrives ==
    /\ IF op = None THEN TRUE ELSE op.pc = "done"
    /\ nextId <= MaxRequests
    /\ op' = [correlation_id |-> nextId, state |-> Some(nextId), pc |-> "call_next",
              outcome |-> None, response |-> None,
              sent |-> IF op = None THEN {} ELSE op.sent \cup {op.response[1]}]
    /\ nextId' = nextId + 1
    /\ UNCHANGED <<users, journal, moods, now, reqs, resp, form, verdict, call, assessment>>

\* the request is served and its response leaves the application
request_served(outcome) ==
    \* the server-error layer above the middlewares: the Exception handler
    \* answers whatever is still raised there
    LET server_error(state, fresh, result) ==
            IF result.raised = None THEN result.response[1]
            ELSE global_exception_handler(state, fresh, result.raised[1])
    IN
    /\ op # None /\ op.pc = "call_next"
    /\ op' = [op EXCEPT !.pc = "done", !.outcome = Some(outcome),
                        !.response = Some(server_error(op.state, nextId,
                            add_correlation_id(op.correlation_id,
                                call_next(op.state, nextId, outcome))))]
    /\ UNCHANGED <<storeVars, now, reqs, resp, form, verdict, call, assessment>>

InitError ==
    /\ users = {} /\ journal = {} /\ moods = {} /\ nextId = 1 /\ now = 0
    /\ reqs = [c \in Clients |-> Idle]
    /\ resp = None
    /\ form = None /\ verdict = NoVerdict /\ call = None /\ assessment = None
    /\ op = None

SpecError ==
    /\ InitError
    /\ [][
          \/ request_arrives
          \/ \E outcome \in {[kind |-> "return", status |-> 200, text |-> "ok"]} \cup {[kind |-> "HTTPException", status |-> s, text |-> "detail"] : s \in {400, 401, 403, 404}} \cup {[kind |-> "RequestValidationError", status |-> 422, text |-> "field required"]} \cup {[kind |-> "Exception", status |-> 0, text |-> t] : t \in {"'CosmosService' object has no attribute 'update_user'", "RetryError", "COSMOS_CONNECTION_STRING environment variable not set"}} : request_served(outcome)
      ]_vars

\* C18: an exception no handler takes yields a 500 response whose body
\* carries the generic message and a correlation_id, never the exception's
\* text; that correlation_id is the one generated for this request, the
\* value the X-Correlation-ID header carries on the request's responses, and
\* no earlier request had it.
C18_GenericError ==
    op # None /\ op.pc = "done" =>
        LET r == op.response[1] IN
        /\ op.outcome[1].kind = "Exception" =>
            /\ r.status = 500
            /\ r.message = UnexpectedErrorMessage
            /\ r.message # op.outcome[1].text
            /\ r.correlation_id = Some(op.correlation_id)
        /\ r.header # None => r.header = Some(op.correlation_id)
        /\ \A s \in op.sent :
            /\ s.correlation_id # Some(op.correlation_id)
            /\ s.header # Some(op.correlation_id)

C18_Witness ==
    /\ op # None /\ op.pc = "done"
    /\ op.outcome[1].kind = "Exception"
    /\ op.response[1].status = 500
    /\ op.correlation_id = 2
    /\ \E s \in op.sent : s.status = 500 /\ s.correlation_id = Some(1)

(***************************************************************************)
(* SpecMood: everything that writes a mood_score: POST /mood/log, the chat *)
(* front end's mood form (which calls CosmosService.create_mood_log), and  *)
(* POST and PUT on the journal.                                            *)
(***************************************************************************)

\* POST /mood/log: the body is validated as MoodLogCreate, then
\* kernel_service.log_mood is called, which KernelService does not define
post_mood_log(cred, mood_score) ==
    LET name == "POST /mood/log"
        Handler(cur) ==
            /\ resp' = IF MoodLog([mood_score |-> mood_score]) # {}
                       THEN Response(name, 422, "Validation error", None, cur, FALSE)
                       ELSE InternalError(name, cur)
            /\ UNCHANGED <<storeVars, now, reqs, pureVars>>
    IN Serve(name, cred, <<name>>, Handler)

\* on_form_submit: create_mood_log(user_id, int(form value), ..) on the
\* service; the item is created before MoodLog(**created_item) validates it,
\* and a validation error leaves as ValueError
on_form_submit(user_id, mood_score) ==
    /\ resp = None
    /\ nextId <= MaxDocs
    /\ LET doc == create_mood_log(user_id, mood_score, List(<<"calm">>), nextId, now)
       IN /\ moods' = create_item(moods, doc)
          /\ resp' = IF MoodLog(doc) # {}
                     THEN Response("create_mood_log", 500, "ValueError", None,
                                   Some(user_id), TRUE)
                     ELSE Response("create_mood_log", 200, "", doc, Some(user_id), TRUE)
    /\ nextId' = nextId + 1
    /\ UNCHANGED <<users, journal, now, reqs, pureVars>>

SpecMood ==
    /\ Init
    /\ [][
          \/ \E cred \in UserCredentials, mood_score \in {0, 5, 11} :
                  post_mood_log(cred, mood_score)
          \/ \E u \in RegisteredUsers, mood_score \in {0, 5, 11} :
                  on_form_submit(u.id, mood_score)
          \/ \E u \in RegisteredUsers, limit \in {1, DefaultLimit}, skip \in 0..1 :
                  call_get_mood_logs(u.id, limit, skip, TRUE)
          \/ \E cred \in UserCredentials, entry \in NewEntries :
                  post_journal_entry(cred, entry, TRUE)
          \/ \E c \in JournalClients, cred \in UserCredentials,
                entry_id \in 1..MaxDocs, upd \in {[mood_score |-> Some(7)], [mood_score |-> Some(11)]} :
                  put_journal_entry_check(c, cred, entry_id, upd, TRUE)
          \/ \E c \in JournalClients : put_journal_entry_read(c, TRUE)
          \/ \E c \in JournalClients : put_journal_entry_replace(c)
          \/ Deliver
      ]_vars

\* C19: the mood log is append-only: no step modifies or deletes a stored
\* MoodLog, so the set of stored mood logs only grows and each stored log
\* keeps the field values it was created with.
C19_AppendOnly ==
    [][\A d \in moods : d \in moods']_vars

\* a second log of the same user was stored next to the first
C19_Witness ==
    \E d, e \in moods : d.id # e.id /\ d.user_id = e.user_id

\* C20: every stored JournalEntry has mood_score absent or within 1..10 and
\* every stored MoodLog has mood_score within 1..10; an API create or update
\* request carrying a mood_score outside 1..10 is rejected with a validation
\* error and writes nothing.
C20_ScoreInRange ==
    /\ [](/\ \A d \in journal : d.mood_score = None \/ d.mood_score[1] \in 1..10
          /\ \A d \in moods : d.mood_score \in 1..10)
    /\ [][/\ \A c \in JournalClients :
                reqs[c].kind = "put" /\ reqs[c].upd.mood_score[1] \notin 1..10
                    => /\ journal' = journal
                       /\ resp' # None => resp'.status = 422
          /\ resp' # None /\ resp = None /\ resp'.route \in {"POST /journal/", "POST /mood/log"}
             /\ resp'.status # 422 /\ resp'.status # 401
                    => \A d \in (journal' \ journal) \cup (moods' \ moods) :
                            IF d \in moods' THEN d.mood_score \in 1..10
                            ELSE d.mood_score = None \/ d.mood_score[1] \in 1..10
         ]_vars

(***************************************************************************)
(* SpecInterleave: two connections.  The two users post, update and delete *)
(* entries through the router, and CosmosService.update_journal_entry is   *)
(* also called with the fields as keywords (as the integration test calls  *)
(* it); the steps of the requests interleave at their awaits.  The first   *)
(* entry is the one updated and deleted.                                   *)
(***************************************************************************)
\* CosmosService.update_journal_entry(entry_id, user_id, **update_fields),
\* lines 298-315, called with the fields themselves: read, ownership, merge.
\* put_journal_entry_replace completes it; its 200 carries what the call
\* returns.  None is returned when the entry is absent or not the user's.
call_update_journal_entry(c, entry_id, user_id, update_fields) ==
    /\ resp = None
    /\ reqs[c] = Idle
    /\ LET entry == get_journal_entry(journal, entry_id, TRUE) IN
       IF entry = None \/ entry.user_id # user_id
       THEN /\ resp' = OnEntry(Response("update_journal_entry", 200, "", None,
                                         Some(user_id), TRUE), entry_id)
            /\ UNCHANGED reqs
       ELSE /\ reqs' = [reqs EXCEPT ![c] =
                    [kind |-> "put", stage |-> "replace", cur |-> Some(user_id),
                     entry_id |-> entry_id, upd |-> update_fields,
                     body |-> update_dict(entry, update_fields, now)]]
            /\ UNCHANGED resp
    /\ UNCHANGED <<storeVars, now, pureVars>>

SpecInterleave ==
    /\ Init
    /\ [][
          \/ \E cred \in UserCredentials :
                post_journal_entry(cred, [content |-> "c1", mood_indicators |-> List(<<>>),
                                          mood_score |-> Some(5)], TRUE)
          \/ \E c \in Clients, cred \in UserCredentials, entry_id \in {1} :
                put_journal_entry_check(c, cred, entry_id, [content |-> "c2"], TRUE)
          \/ \E c \in Clients : put_journal_entry_read(c, TRUE)
          \/ \E c \in Clients : put_journal_entry_replace(c)
          \/ \E c \in Clients, u \in RegisteredUsers, entry_id \in {1},
                update_fields \in {[content |-> "c2"], [mood_score |-> Some(7)]} :
                call_update_journal_entry(c, entry_id, u.id, update_fields)
          \/ \E c \in Clients, cred \in UserCredentials, entry_id \in {1} :
                delete_journal_entry_check(c, cred, entry_id, TRUE)
          \/ \E c \in Clients : delete_journal_entry_read(c, TRUE)
          \/ \E c \in Clients : delete_journal_entry_item(c)
          \/ \E cred \in UserCredentials, entry_id \in {1} :
                get_journal_entry_route(cred, entry_id, TRUE)
          \/ Deliver
      ]_vars

\* C21: a journal entry is owned by exactly one user for its whole life: no
\* two stored entries share an id, a stored entry's id and user_id are the
\* same after every step that keeps it, and a new entry gets an id that was
\* never used, so no create, update or delete hands an entry to another user.
C21_OneOwner ==
    /\ [](\A d, e \in journal : d.id = e.id => d = e)
    /\ [](\A d \in journal : d.id < nextId)
    /\ [][/\ \A d \in journal, e \in journal' : d.id = e.id => d.user_id = e.user_id
          /\ \A e \in journal' :
                (\A d \in journal : d.id # e.id) => e.id = nextId /\ nextId' > nextId
          /\ nextId' >= nextId]_vars

\* the other user's PUT on an updated entry was answered 404
C21_Witness ==
    /\ resp # None
    /\ resp.route = "PUT /journal/{id}"
    /\ resp.status = 404
    /\ \E d \in journal : /\ d.id = resp.path[2]
                          /\ d.updated_at # None
                          /\ resp.cur # None /\ resp.cur # Some(d.user_id)

(***************************************************************************)
(* SpecPlugin: one call of MindfulnessPlugin.guide_exercise or of          *)
(* SafetyPlugin.provide_grounding_prompts, with every outcome of the agent *)
(* call inside it (get_agent_response retries transient errors).           *)
(***************************************************************************)
\* MindfulnessPlugin._exercises, in insertion order
_exercises ==
    <<[name |-> "breathing", duration |-> 300,
       steps |-> <<"Find a comfortable position",
                   "Close your eyes and take a deep breath",
                   "Breathe in for 4 counts", "Hold for 4 counts",
                   "Exhale for 4 counts", "Repeat the cycle">>],
      [name |-> "body_scan", duration |-> 600,
       steps |-> <<"Lie down comfortably", "Focus attention on your feet",
                   "Slowly move attention up through your body",
                   "Notice any sensations without judgment",
                   "Release any tension you find">>],
      [name |-> "mindful_walking", duration |-> 900,
       steps |-> <<"Find a quiet space to walk", "Walk at a natural pace",
                   "Notice the sensation of each step",
                   "Focus on your breathing while walking",
                   "Observe your surroundings mindfully">>]>>

GuideExerciseDefaultsToBreathing(exercise_type, current_time, reply) ==
    IF reply = None THEN None ELSE Returned("guidance")

\* MindfulnessPlugin.guide_exercise.  reply is None up to the agent call
\* (the result None then says: the agent is called), afterwards what
\* get_agent_response did: [raised |-> Some(e)] or [raised |-> None,
\* response |-> the "response" key of its dict, None when absent]
guide_exercise(exercise_type, current_time, reply) ==
    LET RECURSIVE join(_, _)
        join(sep, s) == IF s = <<>> THEN ""
                        ELSE IF Len(s) = 1 THEN s[1]
                        ELSE s[1] \o sep \o join(sep, Tail(s))
        keys == [i \in DOMAIN _exercises |-> _exercises[i].name]
        known == {i \in DOMAIN _exercises : _exercises[i].name = exercise_type}
        exercise == _exercises[CHOOSE i \in known : TRUE]
        numbered == [i \in DOMAIN exercise.steps |->
                        ToString(i) \o ". " \o exercise.steps[i]]
        basic(first) ==
            join("\n", <<first,
                         "Duration: " \o ToString(exercise.duration \div 60) \o " minutes\n",
                         "Follow these steps:">> \o numbered)
    IN
    IF known = {}
    THEN Returned("Exercise type '" \o exercise_type
                  \o "' not found. Available exercises: " \o join(", ", keys))
    ELSE IF reply = None THEN None
    ELSE IF reply.raised # None
    THEN Returned(basic("Starting " \o exercise_type \o " exercise"))
    ELSE IF reply.response = None \/ reply.response = Some("")
    THEN Returned(basic("Starting " \o exercise_type \o " exercise at " \o current_time))
    ELSE Returned(reply.response[1])

\* SafetyPlugin.provide_grounding_prompts, reply as for guide_exercise
provide_grounding_prompts(risk_level, reply) ==
    LET level == IF risk_level \notin {"none", "low", "moderate", "high"}
                 THEN "none" ELSE risk_level
    IN
    IF reply = None THEN None
    ELSE IF reply.raised # None
    THEN Returned("Take a moment to breathe deeply. Focus on your breath going in and out.")
    ELSE IF reply.response # None /\ reply.response # Some("")
    THEN Returned(reply.response[1])
    ELSE IF level = "high"
    THEN Returned("Let's try a grounding exercise together. Name five things you can see, four things you can touch, three things you can hear, two things you can smell, and one thing you can taste.")
    ELSE IF level = "moderate"
    THEN Returned("Take a deep breath with me. Look around your surroundings. What is one thing you can do right now to feel safer?")
    ELSE IF level = "low"
    THEN Returned("What is one small step you can take right now to improve your mood?")
    ELSE Returned("Focus on your breathing and describe how you feel in this moment.")

\* the plugin function runs up to its agent call, or to its return, and
\* again from the agent call's outcome.  An exception that
\* get_agent_response retries (get_agent_response.retry) is followed by
\* another attempt until get_agent_response.stop, then it is RetryError.
plugin_function(outcome) ==
    LET body(reply) ==
            IF op.function = "guide_exercise"
            THEN guide_exercise(op.arg, ToString(now), reply)
            ELSE provide_grounding_prompts(op.arg, reply)
        ends(o, reply) == [o EXCEPT !.pc = "done", !.result = body(reply)]
        o == [op EXCEPT !.log = Append(op.log, outcome)]
    IN
    /\ op # None
    /\ \/ /\ op.pc = "start"
          /\ outcome = [raised |-> None, response |-> None]
          /\ op' = IF body(None) = None THEN [op EXCEPT !.pc = "agent"]
                   ELSE [op EXCEPT !.pc = "done", !.result = body(None)]
       \/ /\ op.pc = "agent"
          /\ op' = IF outcome.raised = None THEN ends(o, outcome)
                   ELSE IF retry_if_exception_type(get_agent_response.retry,
                                                   outcome.raised[1])
                   THEN IF op.attempt < get_agent_response.stop
                        THEN [o EXCEPT !.attempt = op.attempt + 1]
                        ELSE ends(o, [raised |-> Some("RetryError"), response |-> None])
                   ELSE ends(o, outcome)
    /\ UNCHANGED <<storeVars, now, reqs, resp, form, verdict, call, assessment>>

InitPlugin ==
    /\ users = {} /\ journal = {} /\ moods = {} /\ nextId = 1 /\ now = 0
    /\ reqs = [c \in Clients |-> Idle]
    /\ resp = None
    /\ form = None /\ verdict = NoVerdict /\ call = None /\ assessment = None
    /\ \E f \in {[function |-> "guide_exercise", arg |-> e] :
                    e \in {"breathing", "body_scan", "mindful_walking",
                           "invalid_type", ""}}
                \cup {[function |-> "provide_grounding_prompts", arg |-> l] :
                        l \in {"none", "low", "moderate", "high", "severe"}} :
            op = [function |-> f.function, arg |-> f.arg, attempt |-> 1,
                  log |-> <<>>, pc |-> "start", result |-> None]

SpecPlugin ==
    /\ InitPlugin
    /\ [][
          \E outcome \in
                {[raised |-> None, response |-> r] :
                    r \in {None, Some(""), Some("Breathe in slowly.")}}
                \cup {[raised |-> Some(e), response |-> None] :
                        e \in Transient \cup {"ValueError"}} :
              plugin_function(outcome)
      ]_vars

\* C22: guide_exercise called with an exercise_type outside {breathing,
\* body_scan, mindful_walking} returns "Exercise type '<type>' not found.
\* Available exercises: ..." (the three names), never calls the agent and
\* does not raise.
C22_UnknownExercise ==
    op.function = "guide_exercise"
    /\ op.arg \notin {"breathing", "body_scan", "mindful_walking"}
    => /\ op.pc # "agent"
       /\ op.log = <<>>
       /\ op.pc = "done" =>
            /\ op.result.raised = None
            /\ op.result.returned =
                Some("Exercise type '" \o op.arg \o "' not found. Available exercises: breathing, body_scan, mindful_walking")

C22_Witness ==
    /\ op.function = "guide_exercise"
    /\ op.arg = "invalid_type"
    /\ op.pc = "done"
    /\ op.result.returned =
        Some("Exercise type 'invalid_type' not found. Available exercises: breathing, body_scan, mindful_walking")

\* C23: provide_grounding_prompts(level) never raises and, when the agent
\* yields no text (an empty or missing response, or a failure), returns the
\* fixed prompt of the level: five senses for high, deep breath and
\* surroundings for moderate, one small step for low, breathing otherwise
\* (an unrecognised level counts as none).
C23_GroundingFallback ==
    LET FixedPrompt(level) ==
            CASE level = "high" ->
                    "Let's try a grounding exercise together. Name five things you can see, four things you can touch, three things you can hear, two things you can smell, and one thing you can taste."
              [] level = "moderate" ->
                    "Take a deep breath with me. Look around your surroundings. What is one thing you can do right now to feel safer?"
              [] level = "low" ->
                    "What is one small step you can take right now to improve your mood?"
              [] OTHER ->
                    "Focus on your breathing and describe how you feel in this moment."
        last == op.log[Len(op.log)]
    IN
    op.function = "provide_grounding_prompts" /\ op.pc = "done" =>
        /\ op.result.raised = None
        /\ last.raised # None \/ last.response \in {None, Some("")}
            => op.result.returned = Some(FixedPrompt(op.arg))

\* C24: a failure while persisting the assessment (the log_safety_assessment
\* call) does not change what assess_risk returns: the result is the one
\* returned when the call succeeds, so a moderate or high reply keeps its
\* risk_level and requires_immediate_action true.
C24_PersistFailureHarmless ==
    assessment # None =>
        /\ assessment = assess_risk(call.kernel, call.input_text, call.agent, "logs")
        /\ assess_risk(call.kernel, call.input_text, call.agent, "logs") # AssessmentFailed
           /\ "risk_level" \in DOMAIN assessment
           /\ assessment.risk_level \in {Str_moderate, Str_high}
            => assessment.requires_immediate_action = TRUE

\* C25: a token issued by POST /token to user U only ever authenticates as
\* U: whatever is registered or logged in afterwards, get_current_user on a
\* token that has authenticated as U returns U or fails with 401, never
\* another user, and at no time can it return either of two users.
C25_TokenBoundToUser ==
    /\ [](\A token \in Tokens :
            \A u, v \in get_current_user(users, token, now, TRUE) \ {Unauthorized} :
                u.id = v.id)
    /\ [][\A token \in Tokens :
            \A u \in get_current_user(users, token, now, TRUE) \ {Unauthorized},
               v \in get_current_user(users', token, now', TRUE) \ {Unauthorized} :
                u.id = v.id]_vars

\* C30: one create_mood_log call adds at most one mood log to the store,
\* also when attempts are retried after a CosmosHttpResponseError whose
\* write was applied: retries never leave two logs for one check-in.
C30_OneLogPerCall ==
    op # None /\ op.function = "create_mood_log" => Cardinality(moods) <= 1

\* C26: no update is lost: when update_journal_entry calls on one entry
\* interleave, each replace keeps every field its own call did not set as it
\* is stored at that moment, so the entry holds the changes of both calls.
C26_NoLostUpdate ==
    [][\A c \in Clients :
        put_journal_entry_replace(c) =>
            \A d \in journal, e \in journal' :
                d.id = reqs[c].entry_id /\ e.id = d.id =>
                    \A k \in ModelKeys \ (DOMAIN reqs[c].upd \cup {"updated_at"}) :
                        e[k] = d[k]]_vars

\* C28: update_journal_entry changes only the fields passed to it and
\* updated_at: every other key of the stored document, created_at and
\* ai_insights included, keeps its value, no key that is not a journal-entry
\* field appears, and every other entry stays as it is.
C28_UpdateFrame ==
    [][\A c \in JournalClients :
        put_journal_entry_replace(c) =>
            /\ \A d \in journal, e \in journal' :
                d.id = reqs[c].entry_id /\ e.id = d.id =>
                    \A k \in DocKeys \ (DOMAIN reqs[c].upd \cup {"updated_at"}) :
                        e[k] = d[k]
            /\ \A d \in journal : d.id # reqs[c].entry_id => d \in journal']_vars

\* C29: whenever DELETE /journal/{id} answers "Entry deleted successfully"
\* the entry was removed from the store by that request, also when two
\* DELETEs of one entry interleave; and a GET of an id no entry has answers
\* 404.
C29_DeletedMeansRemoved ==
    /\ [][resp = None /\ resp' # None
          /\ resp'.route = "DELETE /journal/{id}" /\ resp'.status = 200
            => \E d \in journal : d.id = resp'.path[2] /\ d \notin journal']_vars
    /\ [](resp # None /\ resp.route = "GET /journal/{id}"
          /\ (\A d \in journal : d.id # resp.path[2])
            => resp.status = 404)
\* C27: an updated entry stays visible: the replaced document keeps type =
\* 'journal_entry', and the owner's GET /journal/ listing (from the start,
\* default limit) still returns every entry of the owner that was updated.
C27_UpdatedStaysListed ==
    /\ [](\A d \in journal : d.type = Some("journal_entry"))
    /\ [][\A cred \in UserCredentials :
            list_journal_entries(cred, 0, DefaultLimit) =>
                \A d \in journal :
                    d.updated_at # None /\ Some(d.user_id) = resp'.cur =>
                        \E i \in DOMAIN resp'.body : resp'.body[i].id = d.id]_vars

====
